---------------------------- MODULE Spec2Model ----------------------------
(***************************************************************************)
(* A model of the procedural quadtree of src/galaxy/galaxyquad.py: the     *)
(* axis-aligned cells (Rect), the rotatable viewport (OrientedRect), the   *)
(* self-pruning tree (QuadNode, QuadTree), its level-of-detail rule, and   *)
(* the stars a node generates from the counter-based hash of               *)
(* src/procedural_galaxy/myrand.py; and of two parts of the feature        *)
(* generator, GalaxyCoordinate (src/features/core/coordinates.py) and      *)
(* RuleEngine (src/procedural_features/generators/rules.py).               *)
(*                                                                         *)
(* Numbers.  The source computes in binary floating point.  The model      *)
(* computes the same expressions exactly, over integers:                   *)
(*   - lengths and coordinates are whole world units; the root boxes are   *)
(*     powers of two, so every halving done by Rect.quadrants is exact;    *)
(*   - an angle is one whose cosine and sine are both rational with        *)
(*     denominator RotDen (the 3-4-5 triangle and its quarter turns); a    *)
(*     unit vector is carried as RotDen times itself;                      *)
(*   - ceil(log2(a/b)) is the least integer k with 2^k * b >= a;           *)
(*   - the hash works on 64-bit words bit for bit; a float it yields is a  *)
(*     multiple of 2^-53 and is kept as that multiple;                     *)
(*   - a star coordinate is the double the source computes: the product    *)
(*     and the sum are rounded to 53 significant bits, ties to even.       *)
(***************************************************************************)
EXTENDS Integers, Sequences, FiniteSets, TLC

VARIABLES
    tree,    \* the QuadTree's own fields: cells_across, min_depth, max_depth
    nodes,   \* the QuadNode objects reachable from tree.root, by position
    last,    \* the last call made on the tree and what it returned
    prev,    \* the desired_depth call made before the last one, if any
    nsub,    \* subdivide() calls made by the caller since the last query
    issued,  \* the star list first generated at each (depth, path), by any
             \* node object, live or since released
    rules,   \* the rules list of the RuleEngine
    heap,    \* the QuadNode objects by identity, detached ones included,
             \* where queries interleave
    calls,   \* the traverse calls in flight: each worker's frames
    lists    \* the `visited` lists the calls in flight append to

vars == <<tree, nodes, last, prev, nsub, issued, rules, heap, calls, lists>>

----------------------------------------------------------------------------
(* Bounds of the model *)

\* the largest max_depth a traversed tree is configured with
MaxDepthCfg == 2

\* direct subdivide() calls between two queries
MaxSubdivide == 1

\* the deepest node the model ever allocates: one level below MaxDepthCfg
MaxNodeDepth == MaxDepthCfg + 1

\* distinct addresses whose stars are generated in one run
MaxStarred == 1

----------------------------------------------------------------------------
(* Small arithmetic *)

Abs(x) == IF x < 0 THEN -x ELSE x

Min(a, b) == IF a <= b THEN a ELSE b

Max(a, b) == IF a >= b THEN a ELSE b

\* a sequence without its last element: a path's parent, a stack popped
Front(p) == SubSeq(p, 1, Len(p) - 1)

RECURSIVE Pow2(_)
Pow2(k) == IF k <= 0 THEN 1 ELSE 2 * Pow2(k - 1)

RECURSIVE Pow(_, _)
Pow(b, e) == IF e <= 0 THEN 1 ELSE b * Pow(b, e - 1)

----------------------------------------------------------------------------
(* myrand: the counter-based hash.  A 64-bit word (an int masked with      *)
(* MASK64) is kept as its 8 bytes, least significant first.                *)

RECURSIVE Bytes(_, _)
Bytes(n, k) == IF k = 0 THEN <<>> ELSE <<n % 256>> \o Bytes(n \div 256, k - 1)

\* v & MASK64, for 0 <= v < 2^31
Word(v) == Bytes(v, 8)

\* the value of a word that is below 2^31
ToInt(a) == a[1] + 256 * a[2] + 65536 * a[3] + 16777216 * a[4]

ByteAt(a, i) == IF i <= Len(a) THEN a[i] ELSE 0

\* (a + b) & MASK64
RECURSIVE AddFrom(_, _, _, _)
AddFrom(a, b, i, carry) ==
    IF i > Len(a) THEN <<>>
    ELSE LET t == a[i] + b[i] + carry
         IN  <<t % 256>> \o AddFrom(a, b, i + 1, t \div 256)

Add64(a, b) == AddFrom(a, b, 1, 0)

\* (a - b) & MASK64
RECURSIVE SubFrom(_, _, _, _)
SubFrom(a, b, i, borrow) ==
    IF i > Len(a) THEN <<>>
    ELSE LET t == a[i] - b[i] - borrow
         IN  <<t % 256>> \o SubFrom(a, b, i + 1, IF t < 0 THEN 1 ELSE 0)

Sub64(a, b) == SubFrom(a, b, 1, 0)

\* (a * b) & MASK64, by columns of byte products
RECURSIVE ColSum(_, _, _, _)
ColSum(a, b, k, i) ==
    IF i > k THEN 0 ELSE a[i] * b[k + 1 - i] + ColSum(a, b, k, i + 1)

RECURSIVE MulFrom(_, _, _, _)
MulFrom(a, b, k, carry) ==
    IF k > Len(a) THEN <<>>
    ELSE LET t == carry + ColSum(a, b, k, 1)
         IN  <<t % 256>> \o MulFrom(a, b, k + 1, t \div 256)

Mul64(a, b) == MulFrom(a, b, 1, 0)

\* a ^ b, bit by bit on half bytes, then by table
RECURSIVE XorInt(_, _)
XorInt(a, b) ==
    IF a = 0 THEN b
    ELSE IF b = 0 THEN a
    ELSE ((a + b) % 2) + 2 * XorInt(a \div 2, b \div 2)

XorNibble == [a \in 0..15 |-> [b \in 0..15 |-> XorInt(a, b)]]

XorByte(a, b) ==
    16 * XorNibble[a \div 16][b \div 16] + XorNibble[a % 16][b % 16]

RECURSIVE XorFrom(_, _, _)
XorFrom(a, b, i) ==
    IF i > Len(a) THEN <<>>
    ELSE <<XorByte(a[i], b[i])>> \o XorFrom(a, b, i + 1)

Xor64(a, b) == XorFrom(a, b, 1)

\* a >> s
RECURSIVE ShrFrom(_, _, _, _)
ShrFrom(a, q, r, i) ==
    IF i > Len(a) THEN <<>>
    ELSE <<ByteAt(a, i + q) \div Pow2(r)
            + (ByteAt(a, i + q + 1) % Pow2(r)) * Pow2(8 - r)>>
         \o ShrFrom(a, q, r, i + 1)

Shr64(a, s) == ShrFrom(a, s \div 8, s % 8, 1)

\* the constants of splitmix64, hash64 and u01
SplitMixGamma == <<21, 124, 74, 127, 185, 121, 55, 158>>   \* 0x9E3779B97F4A7C15
SplitMixMul1 == <<185, 229, 228, 28, 109, 71, 88, 191>>    \* 0xBF58476D1CE4E5B9
SplitMixMul2 == <<235, 17, 49, 19, 187, 73, 208, 148>>     \* 0x94D049BB133111EB
HashInit == <<47, 100, 189, 120, 100, 29, 118, 160>>       \* 0xA0761D6478BD642F
TagMul == <<147, 253, 89, 102, 184, 254, 232, 214>>        \* 0xD6E8FEB86659FD93

TILE_DOMAIN == 1414089797
STAR_DOMAIN == 1398030674

\* z ^ (z >> s)
XorShift(z, s) == Xor64(z, Shr64(z, s))

\* a splitmix64 of three xor-shift-multiply rounds and nothing else, the
\* last multiplication one by the second constant again
splitmix64_three_rounds(x) ==
    LET z1 == Mul64(XorShift(x, 30), SplitMixMul1)
        z2 == Mul64(XorShift(z1, 27), SplitMixMul2)
        z3 == Mul64(XorShift(z2, 31), SplitMixMul2)
    IN  <<x, z1, z2, z3>>

\* splitmix64: the values x and z are assigned, in order, the returned one
\* last
splitmix64_values(x) ==
    LET x1 == Add64(x, SplitMixGamma)
        z1 == Mul64(XorShift(x1, 30), SplitMixMul1)
        z2 == Mul64(XorShift(z1, 27), SplitMixMul2)
    IN  <<x1, z1, z2, XorShift(z2, 31)>>

splitmix64(x) == splitmix64_values(x)[4]

\* hash64(*vals), vals a sequence of words: the values h takes, the initial
\* one first, one more for each value mixed in
RECURSIVE hash64_steps(_)
hash64_steps(vals) ==
    IF vals = <<>> THEN <<HashInit>>
    ELSE LET hs == hash64_steps(SubSeq(vals, 1, Len(vals) - 1))
         IN  Append(hs, splitmix64(Xor64(hs[Len(hs)], vals[Len(vals)])))

hash64(vals) == hash64_steps(vals)[Len(vals) + 1]

\* a u01 that keeps the top 54 bits
u01_top54(seed, tag) == Shr64(splitmix64(Xor64(seed, Mul64(tag, TagMul))), 10)

\* u01(seed, tag) is a multiple of 2^-53 in [0, 1): the result is its
\* numerator, the top 53 bits of the mixed word; tag is given as a word
u01(seed, tag) == Shr64(splitmix64(Xor64(seed, Mul64(tag, TagMul))), 11)

tile_key(world_seed, depth, x, y) ==
    hash64(<<Word(TILE_DOMAIN), Word(world_seed), Word(depth), Word(x), Word(y)>>)

star_id(tile_key_, i) == hash64(<<Word(STAR_DOMAIN), tile_key_, Word(i)>>)

----------------------------------------------------------------------------
(* Rect: an axis-aligned box, center and half sizes *)

Rect(cx, cy, hw, hh) == [cx |-> cx, cy |-> cy, hw |-> hw, hh |-> hh]

xmin(r) == r.cx - r.hw
xmax(r) == r.cx + r.hw
ymin(r) == r.cy - r.hh
ymax(r) == r.cy + r.hh
w(r) == 2 * r.hw
h(r) == 2 * r.hh

\* Rect.corners
RectCorners(r) ==
    << <<xmin(r), ymin(r)>>, <<xmin(r), ymax(r)>>,
       <<xmax(r), ymax(r)>>, <<xmax(r), ymin(r)>> >>

\* quadrants whose centres are moved by the parent's half sizes
quadrants_spread(r) ==
    LET qhw == r.hw \div 2
        qhh == r.hh \div 2
    IN  << Rect(r.cx - r.hw, r.cy + r.hh, qhw, qhh),
           Rect(r.cx + r.hw, r.cy + r.hh, qhw, qhh),
           Rect(r.cx - r.hw, r.cy - r.hh, qhw, qhh),
           Rect(r.cx + r.hw, r.cy - r.hh, qhw, qhh) >>

\* Rect.quadrants: NW, NE, SW, SE.  Half sizes are even wherever the model
\* halves them, so the division is exact as it is in the source.
quadrants(r) ==
    LET qhw == r.hw \div 2
        qhh == r.hh \div 2
    IN  << Rect(r.cx - qhw, r.cy + qhh, qhw, qhh),
           Rect(r.cx + qhw, r.cy + qhh, qhw, qhh),
           Rect(r.cx - qhw, r.cy - qhh, qhw, qhh),
           Rect(r.cx + qhw, r.cy - qhh, qhw, qhh) >>

----------------------------------------------------------------------------
(* OrientedRect: the viewport.  theta_rad names an entry of AngleTable. *)

\* the common denominator of the cosines and sines of AngleTable
RotDen == 5

\* <<RotDen*cos, RotDen*sin>> of the angles 0, atan(3/4), atan(4/3), pi/2,
\* pi - atan(4/3), pi - atan(3/4), pi, -atan(3/4)
AngleTable ==
    << <<5, 0>>, <<4, 3>>, <<3, 4>>, <<0, 5>>,
       <<-3, 4>>, <<-4, 3>>, <<-5, 0>>, <<4, -3>> >>

OrientedRect(cx, cy, hw, hh, theta) ==
    [cx |-> cx, cy |-> cy, hw |-> hw, hh |-> hh, theta_rad |-> theta]

\* OrientedRect._axes: u = (c, s), v = (-s, c), each RotDen times the unit vector
Axes(vp) ==
    LET c == AngleTable[vp.theta_rad][1]
        s == AngleTable[vp.theta_rad][2]
    IN  << <<c, s>>, <<-s, c>> >>

Dot(ax, ay, bx, by) == ax * bx + ay * by

\* proj_aabb: the interval of r on `axis`, RotDen times its world length
ProjAABB(axis, r) ==
    LET c   == Dot(r.cx, r.cy, axis[1], axis[2])
        rad == r.hw * Abs(axis[1]) + r.hh * Abs(axis[2])
    IN  <<c - rad, c + rad>>

\* proj_obb: the interval of the viewport on `axis`, at the same scale
ProjOBB(axis, vp) ==
    LET u   == Axes(vp)[1]
        v   == Axes(vp)[2]
        c   == Dot(vp.cx, vp.cy, axis[1], axis[2])
        rad == vp.hw * (Abs(Dot(u[1], u[2], axis[1], axis[2])) \div RotDen)
               + vp.hh * (Abs(Dot(v[1], v[2], axis[1], axis[2])) \div RotDen)
    IN  <<c - rad, c + rad>>

\* an overlap test that looks at one side only
OverlapOneSided(i1, i2) == ~(i1[2] < i2[1])

Overlap(i1, i2) ==
    LET a == i1
        b == i2
    IN  ~(a[2] < b[1] \/ b[2] < a[1])

\* OrientedRect.intersects_aabb: separating axis test on the two world axes
\* and the viewport's two axes
IntersectsAABB(vp, aabb) ==
    LET axes == << <<RotDen, 0>>, <<0, RotDen>>, Axes(vp)[1], Axes(vp)[2] >>
    IN  \A i \in 1..4 : Overlap(ProjAABB(axes[i], aabb), ProjOBB(axes[i], vp))

\* OrientedRect.corners, each coordinate RotDen times its world value
OBBCorners(vp) ==
    LET u  == Axes(vp)[1]
        v  == Axes(vp)[2]
        du == <<u[1] * vp.hw, u[2] * vp.hw>>
        dv == <<v[1] * vp.hh, v[2] * vp.hh>>
        cx == RotDen * vp.cx
        cy == RotDen * vp.cy
    IN  << <<cx - du[1] - dv[1], cy - du[2] - dv[2]>>,
           <<cx - du[1] + dv[1], cy - du[2] + dv[2]>>,
           <<cx + du[1] + dv[1], cy + du[2] + dv[2]>>,
           <<cx + du[1] - dv[1], cy + du[2] - dv[2]>> >>

\* OrientedRect.to_local, each coordinate RotDen times its world value
ToLocal(vp, x, y) ==
    LET dx == x - vp.cx
        dy == y - vp.cy
        c  == AngleTable[vp.theta_rad][1]
        s  == AngleTable[vp.theta_rad][2]
    IN  <<c * dx + s * dy, (-s) * dx + c * dy>>

\* a point test that looks at the local x extent only
contains_point_x_only(vp, x, y) ==
    LET u  == Axes(vp)[1]
        lx == (x - vp.cx) * u[1] + (y - vp.cy) * u[2]
    IN  Abs(lx) <= RotDen * vp.hw

\* OrientedRect.contains_point: local coordinates by dot products with u and
\* v, compared at RotDen times their world value
contains_point(vp, x, y) ==
    LET u  == Axes(vp)[1]
        v  == Axes(vp)[2]
        dx == x - vp.cx
        dy == y - vp.cy
        lx == dx * u[1] + dy * u[2]
        ly == dx * v[1] + dy * v[2]
    IN  Abs(lx) <= RotDen * vp.hw /\ Abs(ly) <= RotDen * vp.hh

\* OrientedRect.contains_aabb: all four corners of the box are inside
contains_aabb(vp, aabb) ==
    \A i \in 1..4 :
        contains_point(vp, RectCorners(aabb)[i][1], RectCorners(aabb)[i][2])

----------------------------------------------------------------------------
(* QuadNode.  A node object is named by its position: the child indices    *)
(* followed from tree.root to reach it.  `children` holds the positions of *)
(* the four child objects, or None.                                        *)

None == <<>>

QuadNode(rect, depth, path) ==
    [rect |-> rect, depth |-> depth, path |-> path,
     children |-> None, stars |-> None]

\* is_leaf
is_leaf(n) == n.children = None

\* the nodes reached from pos by following `children`
RECURSIVE Reach(_, _)
Reach(ns, pos) ==
    {pos} \cup UNION {Reach(ns, ns[pos].children[i]) :
                        i \in 1..Len(ns[pos].children)}

\* positions strictly below pos
Below(ns, pos) ==
    {p \in DOMAIN ns : Len(p) > Len(pos) /\ SubSeq(p, 1, Len(pos)) = pos}

\* a collapse that forgets to clear the field
KeepChildren(ns, pos) == ns

\* self.children = None: the subtree's objects are released with the tuple
DropChildren(ns, pos) ==
    LET keep == (DOMAIN ns) \ Below(ns, pos)
    IN  IF ns[pos].children = None
        THEN ns
        ELSE [p \in keep |->
                IF p = pos THEN [ns[p] EXCEPT !.children = None] ELSE ns[p]]

\* a subdivide that numbers the quadrants from 1
subdivide_miscounted(ns, pos) ==
    LET self == ns[pos]
        q    == quadrants(self.rect)
        kids == [i \in 1..Len(q) |-> Append(pos, i - 1)]
        made == [i \in 1..Len(q) |->
                    QuadNode(q[i], self.depth + 1, Append(self.path, i))]
    IN  IF self.children # None
        THEN ns
        ELSE [p \in (DOMAIN ns) \cup {kids[i] : i \in 1..Len(q)} |->
                IF p = pos THEN [self EXCEPT !.children = kids]
                ELSE IF \E i \in 1..Len(q) : kids[i] = p
                     THEN made[CHOOSE i \in 1..Len(q) : kids[i] = p]
                     ELSE ns[p]]

\* a subdivide without the early return: it replaces children that exist
subdivide_always(ns, pos) ==
    LET self == ns[pos]
        q    == quadrants(self.rect)
        kids == [i \in 1..Len(q) |-> Append(pos, i - 1)]
        made == [i \in 1..Len(q) |->
                    QuadNode(q[i], self.depth + 1, Append(self.path, i - 1))]
    IN  [p \in (DOMAIN ns) \cup {kids[i] : i \in 1..Len(q)} |->
            IF p = pos THEN [self EXCEPT !.children = kids]
            ELSE IF \E i \in 1..Len(q) : kids[i] = p
                 THEN made[CHOOSE i \in 1..Len(q) : kids[i] = p]
                 ELSE ns[p]]

\* QuadNode.subdivide
subdivide(ns, pos) ==
    LET self == ns[pos]
        q    == quadrants(self.rect)
        kids == [i \in 1..Len(q) |-> Append(pos, i - 1)]
        made == [i \in 1..Len(q) |->
                    QuadNode(q[i], self.depth + 1, Append(self.path, i - 1))]
    IN  IF self.children # None
        THEN ns
        ELSE [p \in (DOMAIN ns) \cup {kids[i] : i \in 1..Len(q)} |->
                IF p = pos THEN [self EXCEPT !.children = kids]
                ELSE IF \E i \in 1..Len(q) : kids[i] = p
                     THEN made[CHOOSE i \in 1..Len(q) : kids[i] = p]
                     ELSE ns[p]]

\* node_position: the path's low bits give x, its high bits y
\* a node_position that takes x from the high bit of a step and y from the
\* low one
RECURSIVE node_position_swapped(_, _, _)
node_position_swapped(x, y, path) ==
    IF path = <<>> THEN <<x, y>>
    ELSE node_position_swapped(2 * x + ((Head(path) \div 2) % 2),
                               2 * y + (Head(path) % 2), Tail(path))

RECURSIVE node_position_from(_, _, _)
node_position_from(x, y, path) ==
    IF path = <<>> THEN <<x, y>>
    ELSE node_position_from(2 * x + (Head(path) % 2),
                            2 * y + ((Head(path) \div 2) % 2), Tail(path))

node_position(self) == node_position_from(0, 0, self.path)

node_key(self) ==
    <<self.depth, node_position(self)[1], node_position(self)[2]>>

\* the integer operators of morton_code on naturals: x >> i, x & 1, b << k
\* and code | v for a v of one bit
ShiftRight(x, i) == x \div Pow2(i)
LowBit(x) == x % 2
ShiftLeft(b, k) == b * Pow2(k)
BitOr(code, v) ==
    IF v = 0 \/ LowBit(code \div v) = 1 THEN code ELSE code + v

\* a morton_code that puts the bits of x in the odd places and those of y
\* in the even ones
RECURSIVE morton_code_transposed(_, _, _, _)
morton_code_transposed(code, x, y, todo) ==
    IF todo = <<>> THEN code
    ELSE LET i == Head(todo)
         IN  morton_code_transposed(
                 BitOr(BitOr(code, ShiftLeft(LowBit(ShiftRight(x, i)), 2 * i + 1)),
                       ShiftLeft(LowBit(ShiftRight(y, i)), 2 * i)),
                 x, y, Tail(todo))

\* morton_code: for i in range(depth), or in bit i of x at place 2i and
\* bit i of y at place 2i + 1
RECURSIVE morton_code_from(_, _, _, _)
morton_code_from(code, x, y, todo) ==
    IF todo = <<>> THEN code
    ELSE LET i == Head(todo)
         IN  morton_code_from(
                 BitOr(BitOr(code, ShiftLeft(LowBit(ShiftRight(x, i)), 2 * i)),
                       ShiftLeft(LowBit(ShiftRight(y, i)), 2 * i + 1)),
                 x, y, Tail(todo))

morton_code(self) ==
    morton_code_from(0, node_position(self)[1], node_position(self)[2],
                     [i \in 1..self.depth |-> i - 1])

GLOBAL_SEED == 8675309

\* a tile key that also mixes in how many node objects are alive, as a seed
\* taken from the object rather than from its address would
tileID_of_object(self) ==
    LET k == node_key(self)
    IN  tile_key(GLOBAL_SEED + Cardinality(DOMAIN nodes), k[1], k[2], k[3])

tileID(self) ==
    LET k == node_key(self)
    IN  tile_key(GLOBAL_SEED, k[1], k[2], k[3])

----------------------------------------------------------------------------
(* generate_stars.  A float in [0, 1) made by u01 is its numerator over    *)
(* 2^53; a coordinate is kept exactly, as a whole part and a fraction in   *)
(* [0, 1) with the same denominator.                                       *)

VariationTag == <<254, 202, 222, 250, 0, 0, 0, 0>>     \* 0xFADECAFE
Half == <<0, 0, 0, 0, 0, 0, 16, 0>>                    \* 0.5
One == <<0, 0, 0, 0, 0, 0, 32, 0>>                     \* 1.0

\* u - 0.5, as a sign and a magnitude
AtLeastHalf(u) == u[7] >= 16

OffHalf(u) == IF AtLeastHalf(u) THEN Sub64(u, Half) ELSE Sub64(Half, u)

\* the low 53 bits
Low53(a) == <<a[1], a[2], a[3], a[4], a[5], a[6], a[7] % 32, 0>>

\* 2^t as a word, t <= 53
Pow2Word(t) == Mul64(Word(Pow2(t \div 2)), Word(Pow2(t - t \div 2)))

\* a < b on words
Less64(a, b) == \E i \in 1..8 : a[i] < b[i] /\ \A j \in (i + 1)..8 : a[j] = b[j]

\* the number of bits of n >= 1
BitLen(n) == CHOOSE t \in 1..31 : Pow2(t - 1) <= n /\ (t = 31 \/ n < Pow2(t))

\* A double holds 53 significant bits.  m = int + frac / 2^53 >= 0 rounded
\* to the nearest double, ties to the even one: with t bits before the
\* point, the lowest t bits of frac are rounded away.
RoundMag(m) ==
    IF m.int = 0 THEN m
    ELSE LET t     == BitLen(m.int)
             kept  == Shr64(m.frac, t)
             base  == Mul64(kept, Pow2Word(t))
             rem   == Sub64(m.frac, base)
             half  == Pow2Word(t - 1)
             up    == Less64(half, rem) \/ (rem = half /\ kept[1] % 2 = 1)
             frac2 == IF up THEN Add64(base, Pow2Word(t)) ELSE base
         IN  IF frac2 = One THEN [int |-> m.int + 1, frac |-> Word(0)]
             ELSE [int |-> m.int, frac |-> frac2]

\* the opposite of x = int + frac / 2^53
Negated(x) ==
    IF x.frac = Word(0) THEN [int |-> 0 - x.int, frac |-> x.frac]
    ELSE [int |-> 0 - x.int - 1, frac |-> Sub64(One, x.frac)]

\* x rounded to the nearest double
RoundDouble(x) == IF x.int >= 0 THEN RoundMag(x) ELSE Negated(RoundMag(Negated(x)))

\* c + (u - 0.5) * size in doubles, for a whole c and a whole size in
\* 0..4095: u - 0.5 is exact, the product and the sum are rounded
Spread(c, u, size) ==
    LET p == Mul64(OffHalf(u), Word(size))
        m == RoundMag([int |-> ToInt(Shr64(p, 53)), frac |-> Low53(p)])
    IN  IF AtLeastHalf(u) THEN RoundDouble([int |-> c + m.int, frac |-> m.frac])
        ELSE RoundDouble(Negated([int |-> m.int - c, frac |-> m.frac]))

\* 5^depth as a word, depth <= 27
RECURSIVE Pow5Word(_)
Pow5Word(depth) == IF depth = 0 THEN Word(1) ELSE Mul64(Pow5Word(depth - 1), Word(5))

\* an n_expected rounded to the nearest whole number
n_expected_rounded(depth) == (2 * Pow(5, depth) + Pow(4, depth)) \div (2 * Pow(4, depth))

\* int(5**depth / 4**depth): the quotient is below 2^53, where int() of the
\* double is the whole part of the exact quotient
n_expected(depth) == ToInt(Shr64(Pow5Word(depth), 2 * depth))

\* int((u - 0.5) * n_expected * 0.3): towards zero, the 0.3 taken as 3/10
variation(u, n_exp) ==
    LET q == ToInt(Shr64(Mul64(OffHalf(u), Word(3 * n_exp)), 53)) \div 10
    IN  IF AtLeastHalf(u) THEN q ELSE 0 - q

StarStub(starID, position, brightness) ==
    [starID |-> starID, position |-> position, brightness |-> brightness]

\* the tags of the three u01(seed, tag) draws of star i: its x, its y and
\* its brightness
XTag(i) == 2 * i
YTag(i) == 2 * i + 1
BrightnessTag(i) == i

\* the list built when self.stars is None
stars_local(self) ==
    LET n_exp == n_expected(self.depth)
        n     == Max(1, n_exp + variation(u01(tileID(self), VariationTag), n_exp))
        seed  == tileID(self)
    IN  [k \in 1..n |->
            LET i == k - 1
            IN  StarStub(star_id(seed, i),
                         <<Spread(self.rect.cx, u01(seed, Word(XTag(i))), w(self.rect)),
                           Spread(self.rect.cy, u01(seed, Word(YTag(i))), h(self.rect))>>,
                         [int |-> 0, frac |-> u01(seed, Word(BrightnessTag(i)))])]

\* a generate_stars that returns the list without keeping it
generate_stars_unstored(ns, pos) ==
    LET self == ns[pos]
    IN  [nodes |-> ns,
         ret |-> IF self.stars = None THEN stars_local(self) ELSE self.stars]

\* QuadNode.generate_stars: the cached list, built on the first call
generate_stars(ns, pos) ==
    LET self   == ns[pos]
        result == IF self.stars = None THEN stars_local(self) ELSE self.stars
    IN  [nodes |-> [ns EXCEPT ![pos].stars = result], ret |-> result]

----------------------------------------------------------------------------
(* QuadTree: the level-of-detail rule *)

\* 1 / 1e-9, the floor of the denominator in pseudo_depth
EpsInv == 1000000000

\* QuadTree(root, cells_across, min_depth, max_depth); the root node is
\* nodes[<<>>]
QuadTree(cells_across, min_depth, max_depth) ==
    [cells_across |-> cells_across, min_depth |-> min_depth,
     max_depth |-> max_depth]

\* a pseudo_depth that measures the viewport by its longer side
pseudo_depth_longer_side(t, root, vp) ==
    LET vmin      == Max(vp.hw, vp.hh) * 2
        root_size == Max(w(root), h(root))
        num       == root_size * t.cells_across
    IN  IF vmin < 1
        THEN [num |-> num, den |-> 1, mul |-> EpsInv]
        ELSE [num |-> num, den |-> vmin, mul |-> 1]

\* a pseudo_depth with the quotient upside down
pseudo_depth_inverted(t, root, vp) ==
    LET vmin      == Min(vp.hw, vp.hh) * 2
        root_size == Max(w(root), h(root))
        num       == root_size * t.cells_across
    IN  IF vmin < 1
        THEN [num |-> 1, den |-> num, mul |-> 1]
        ELSE [num |-> vmin, den |-> num, mul |-> 1]

\* QuadTree.pseudo_depth, before its log2: the ratio num * mul / den.
\* vmin is a whole number of world units, so max(1e-9, vmin) is 1e-9 exactly
\* when vmin < 1.
pseudo_depth(t, root, vp) ==
    LET vmin      == Min(vp.hw, vp.hh) * 2
        root_size == Max(w(root), h(root))
        num       == root_size * t.cells_across
    IN  IF vmin < 1
        THEN [num |-> num, den |-> 1, mul |-> EpsInv]
        ELSE [num |-> num, den |-> vmin, mul |-> 1]

\* math.log2 raises ValueError on a ratio that is not positive
log2_raises(ratio) == ratio.num <= 0

\* least k >= 0 with 2^k * den >= num, for num > den > 0
RECURSIVE CeilUp(_, _)
CeilUp(num, den) ==
    IF num <= den THEN 0 ELSE 1 + CeilUp((num + 1) \div 2, den)

\* greatest j >= 0 with 2^j * num <= den, for 0 < num <= den
RECURSIVE FloorDown(_, _)
FloorDown(num, den) ==
    IF 2 * num <= den THEN 1 + FloorDown(2 * num, den) ELSE 0

\* a logarithm that forgets the second factor
CeilLog2ProdFirstOnly(a, b) == CeilUp(a, 1)

\* least k >= 0 with 2^k >= a * b, for a, b >= 1; the product itself may
\* not fit a machine integer, so factors of two are counted first
RECURSIVE CeilLog2Prod(_, _)
CeilLog2Prod(a, b) ==
    IF a % 2 = 0 THEN 1 + CeilLog2Prod(a \div 2, b)
    ELSE IF b % 2 = 0 THEN 1 + CeilLog2Prod(a, b \div 2)
    ELSE CeilUp(a * b, 1)

\* int(math.ceil(math.log2(ratio))) for a positive ratio
CeilLog2(ratio) ==
    IF ratio.mul > 1 THEN CeilLog2Prod(ratio.num, ratio.mul)
    ELSE IF ratio.num > ratio.den THEN CeilUp(ratio.num, ratio.den)
    ELSE 0 - FloorDown(ratio.num, ratio.den)

\* QuadTree.desired_depth
desired_depth(t, root, vp) ==
    LET pdepth_int == CeilLog2(pseudo_depth(t, root, vp))
    IN  Max(t.min_depth, Min(t.max_depth, pdepth_int))

\* a stop closure that lets the target depth itself descend
default_stop_past_target(node, target_depth, max_depth) ==
    node.depth > target_depth \/ node.depth >= max_depth

\* the closure `stop` returned by QuadTree.default_stop_predicate
default_stop(node, target_depth, max_depth) ==
    node.depth >= target_depth \/ node.depth >= max_depth

\* QuadTree.default_stop_predicate: target_depth is computed once
default_stop_predicate(t, root, vp) ==
    [kind |-> "default", target_depth |-> desired_depth(t, root, vp),
     max_depth |-> t.max_depth]

\* a StopPredicate the caller passes to update(): a function of the node and
\* the viewport.  "never" and "always" are the constant ones, "contained"
\* stops at a box that lies inside the viewport, "leaf" looks at the tree
\* itself and stops at a node that has no children yet.
CallerStop(kind) == [kind |-> kind, target_depth |-> 0, max_depth |-> 0]

\* stop(self, viewport) in QuadNode.traverse
StopCall(stop, node, vp) ==
    CASE stop.kind = "default" ->
            default_stop(node, stop.target_depth, stop.max_depth)
      [] stop.kind = "never" -> FALSE
      [] stop.kind = "always" -> TRUE
      [] stop.kind = "contained" -> contains_aabb(vp, node.rect)
      [] stop.kind = "leaf" -> is_leaf(node)

----------------------------------------------------------------------------
(* QuadNode.traverse.  st = [nodes, visited] is the heap and the shared    *)
(* `visited` list as the call finds them; the result is what it leaves.    *)

RECURSIVE traverse(_, _, _, _, _)
RECURSIVE traverse_children(_, _, _, _, _, _)

\* a traversal that asks the stop test of leaves only and walks on through
\* children that an earlier query left
RECURSIVE traverse_trusting(_, _, _, _, _)
traverse_trusting(st, pos, vp, stop, max_depth) ==
    LET self == st.nodes[pos]
    IN  IF ~IntersectsAABB(vp, self.rect)
        THEN [nodes |-> DropChildren(st.nodes, pos), visited |-> st.visited]
        ELSE
        LET vis         == Append(st.visited, pos)
            should_stop == /\ is_leaf(self)
                           /\ StopCall(stop, self, vp) \/ self.depth >= max_depth
        IN  IF should_stop
            THEN [nodes |-> DropChildren(st.nodes, pos), visited |-> vis]
            ELSE
            LET ns == subdivide(st.nodes, pos)
            IN  traverse_children([nodes |-> ns, visited |-> vis],
                                  ns[pos].children, 1, vp, stop, max_depth)

\* a traversal that builds the children of a descending node anew
RECURSIVE traverse_rebuilding(_, _, _, _, _)
traverse_rebuilding(st, pos, vp, stop, max_depth) ==
    LET self == st.nodes[pos]
    IN  IF ~IntersectsAABB(vp, self.rect)
        THEN [nodes |-> DropChildren(st.nodes, pos), visited |-> st.visited]
        ELSE
        LET vis         == Append(st.visited, pos)
            should_stop == StopCall(stop, self, vp) \/ self.depth >= max_depth
        IN  IF should_stop
            THEN [nodes |-> DropChildren(st.nodes, pos), visited |-> vis]
            ELSE
            LET ns == subdivide(DropChildren(st.nodes, pos), pos)
            IN  traverse_children([nodes |-> ns, visited |-> vis],
                                  ns[pos].children, 1, vp, stop, max_depth)

\* QuadNode.traverse
traverse(st, pos, vp, stop, max_depth) ==
    LET self == st.nodes[pos]
    IN  IF ~IntersectsAABB(vp, self.rect)
        THEN [nodes |-> DropChildren(st.nodes, pos), visited |-> st.visited]
        ELSE
        LET vis         == Append(st.visited, pos)
            should_stop == StopCall(stop, self, vp) \/ self.depth >= max_depth
        IN  IF should_stop
            THEN [nodes |-> DropChildren(st.nodes, pos), visited |-> vis]
            ELSE
            LET ns == subdivide(st.nodes, pos)
            IN  traverse_children([nodes |-> ns, visited |-> vis],
                                  ns[pos].children, 1, vp, stop, max_depth)

\* a loop over the children that leaves the last one out
RECURSIVE traverse_children_short(_, _, _, _, _, _)
traverse_children_short(st, kids, i, vp, stop, max_depth) ==
    IF i >= Len(kids) THEN st
    ELSE traverse_children_short(traverse(st, kids[i], vp, stop, max_depth),
                                 kids, i + 1, vp, stop, max_depth)

\* a loop over the children that starts from the last one
RECURSIVE traverse_children_reversed(_, _, _, _, _, _)
traverse_children_reversed(st, kids, i, vp, stop, max_depth) ==
    IF i > Len(kids) THEN st
    ELSE traverse_children_reversed(
            traverse(st, kids[Len(kids) + 1 - i], vp, stop, max_depth),
            kids, i + 1, vp, stop, max_depth)

\* for child in self.children: child.traverse(...)
traverse_children(st, kids, i, vp, stop, max_depth) ==
    IF i > Len(kids) THEN st
    ELSE traverse_children(traverse(st, kids[i], vp, stop, max_depth),
                           kids, i + 1, vp, stop, max_depth)

\* QuadTree.update with stop=None
update(t, ns, vp) ==
    LET stop == default_stop_predicate(t, ns[<<>>].rect, vp)
    IN  traverse([nodes |-> ns, visited |-> <<>>], <<>>, vp, stop, t.max_depth)

\* QuadTree.update with a stop predicate of the caller's
update_stop(t, ns, vp, stop) ==
    traverse([nodes |-> ns, visited |-> <<>>], <<>>, vp, stop, t.max_depth)

----------------------------------------------------------------------------
(* The inputs of the traversal model *)

\* the finest cell of the model is one world unit wide at least
G == Pow2(MaxNodeDepth)

\* root boxes: a square one and an off-centre, non-square one
RootBoxes == {Rect(0, 0, 2 * G, 2 * G), Rect(G, 0 - G, 2 * G, G)}

\* LOD configurations that satisfy cells_across > 0, 0 <= min_depth <= max_depth
TreeConfigs ==
    {QuadTree(1, 0, MaxDepthCfg), QuadTree(2, 0, MaxDepthCfg),
     QuadTree(1, 1, MaxDepthCfg), QuadTree(1, 0, MaxDepthCfg - 1),
     QuadTree(2, MaxDepthCfg - 1, MaxDepthCfg - 1)}

\* viewport centres: inside the root, across its edge, beyond its corner,
\* and far outside
Centres == {<<5, 0 - 3>>, <<2 * G + 4, 0>>, <<2 * G + 7, 2 * G + 7>>,
            <<6 * G, 0>>}

\* viewport half sizes, from the whole root down to below the finest cell,
\* and a degenerate one
HalfSizes == {<<2 * G, 2 * G>>, <<4, 8>>, <<2, 3>>, <<0, 4>>}

\* entries of AngleTable
Angles == {1, 2, 5}

Viewports ==
    {OrientedRect(c[1], c[2], e[1], e[2], a) :
        c \in Centres, e \in HalfSizes, a \in Angles}

----------------------------------------------------------------------------
(* The tree as a state machine *)

\* exc names the exception a call ended with, "" when it returned
NoCall(op) ==
    [op |-> op, vp |-> None, ret |-> None, exc |-> "", root_was_leaf |-> TRUE,
     node |-> None, cached |-> FALSE, known |-> FALSE, was_leaf |-> TRUE]

\* QuadTree(QuadNode(Rect(...), depth=0), cells_across, min_depth, max_depth)
Init ==
    /\ tree \in TreeConfigs
    /\ \E r \in RootBoxes : nodes = (<<>> :> QuadNode(r, 0, <<>>))
    /\ last = NoCall("QuadTree")
    /\ prev = NoCall("QuadTree")
    /\ nsub = 0
    /\ issued = <<>>
    /\ rules = <<>>
    /\ heap = <<>>
    /\ calls = <<>>
    /\ lists = <<>>

\* visited = tree.update(vp)
Update(vp) ==
    LET r == update(tree, nodes, vp)
    IN  /\ nodes' = r.nodes
        /\ last' = [op |-> "update", vp |-> vp, ret |-> r.visited, exc |-> "",
                    root_was_leaf |-> is_leaf(nodes[<<>>])]
        /\ nsub' = 0
        /\ UNCHANGED <<tree, prev, issued, rules, heap, calls, lists>>

\* node.subdivide() on a node the caller reaches from the root
Subdivide(pos) ==
    /\ nsub < MaxSubdivide
    /\ nodes[pos].depth < MaxNodeDepth
    /\ nodes' = subdivide(nodes, pos)
    /\ last' = [NoCall("subdivide") EXCEPT !.was_leaf = is_leaf(nodes[pos])]
    /\ nsub' = nsub + 1
    /\ UNCHANGED <<tree, prev, issued, rules, heap, calls, lists>>

Next ==
    \/ \E vp \in Viewports : Update(vp)
    \/ \E pos \in DOMAIN nodes : Subdivide(pos)

Spec == Init /\ [][Next]_vars

----------------------------------------------------------------------------
(* The level-of-detail rule alone: desired_depth applied to chosen inputs *)

\* root boxes of the depth model: the demo's 512 x 512 world, a non-square
\* one and a small off-centre one
DepthRootBoxes == {Rect(0, 0, 512, 512), Rect(0, 0, 512, 256), Rect(7, 0 - 3, 16, 8)}

\* from_center's defaults (cells_across = 4, depths 0..20) and other
\* configurations with cells_across > 0 and 0 <= min_depth <= max_depth
DepthConfigs ==
    {QuadTree(4, 0, 20), QuadTree(4, 3, 6), QuadTree(4, 0, 45),
     QuadTree(3, 0, 20), QuadTree(1, 2, 2), QuadTree(1, 0, 20)}

\* viewport half sizes: the demo's, its transpose, exact and inexact powers
\* of two, larger than the world, and degenerate ones
DepthHalfSizes ==
    {<<90, 160>>, <<160, 90>>, <<64, 64>>, <<63, 64>>, <<65, 70>>, <<1, 2000>>,
     <<512, 512>>, <<2048, 4096>>, <<0, 5>>, <<0, 0>>}

DepthViewports ==
    {OrientedRect(10, 96, e[1], e[2], 2) : e \in DepthHalfSizes}
    \cup {OrientedRect(0, 0, e[1], e[2], 1) : e \in {<<90, 160>>, <<0, 5>>}}

InitDepth ==
    /\ tree \in DepthConfigs
    /\ \E r \in DepthRootBoxes : nodes = (<<>> :> QuadNode(r, 0, <<>>))
    /\ last = NoCall("QuadTree")
    /\ prev = NoCall("QuadTree")
    /\ nsub = 0
    /\ issued = <<>>
    /\ rules = <<>>
    /\ heap = <<>>
    /\ calls = <<>>
    /\ lists = <<>>

\* d = tree.desired_depth(vp); math.log2 raises ValueError on a ratio <= 0
DesiredDepth(vp) ==
    /\ last' = IF log2_raises(pseudo_depth(tree, nodes[<<>>].rect, vp))
                THEN [NoCall("desired_depth") EXCEPT
                        !.vp = vp, !.exc = "ValueError"]
                ELSE [NoCall("desired_depth") EXCEPT
                        !.vp = vp,
                        !.ret = desired_depth(tree, nodes[<<>>].rect, vp)]
    /\ prev' = last
    /\ UNCHANGED <<tree, nodes, nsub, issued, rules, heap, calls, lists>>

NextDepth == \E vp \in DepthViewports : DesiredDepth(vp)

SpecDepth == InitDepth /\ [][NextDepth]_vars

----------------------------------------------------------------------------
(* Construction with arbitrary arguments *)

\* half sizes and LOD settings a caller may pass, valid or not
CtorHalfSizes == {0 - 16, 0, 16}
CtorCells == {0 - 1, 0, 1, 4}
CtorDepths == {0, 1, 20}

CtorViewports == {OrientedRect(0, 0, 4, 8, 1), OrientedRect(0, 0, 0, 0, 1)}

\* QuadTree(QuadNode(Rect(cx, cy, hw, hh), depth=0), cells_across, min_depth,
\* max_depth): neither dataclass checks its fields
InitCtor ==
    /\ \E c \in CtorCells, mn \in CtorDepths, mx \in CtorDepths :
            tree = QuadTree(c, mn, mx)
    /\ \E hw \in CtorHalfSizes, hh \in CtorHalfSizes :
            nodes = (<<>> :> QuadNode(Rect(0, 0, hw, hh), 0, <<>>))
    /\ last = NoCall("QuadTree")
    /\ prev = NoCall("QuadTree")
    /\ nsub = 0
    /\ issued = <<>>
    /\ rules = <<>>
    /\ heap = <<>>
    /\ calls = <<>>
    /\ lists = <<>>

NextCtor == \E vp \in CtorViewports : DesiredDepth(vp)

SpecCtor == InitCtor /\ [][NextCtor]_vars

----------------------------------------------------------------------------
(* Star generation on a tree that queries grow and prune *)

\* a close look and a half-size look at different parts of the root, a look
\* at the whole of it, and a look past it that collapses the whole tree
StarViewports ==
    {OrientedRect(5, 0 - 3, 2, 3, 1), OrientedRect(0 - 9, 6, G, G, 5),
     OrientedRect(5, 0 - 3, 2 * G, 2 * G, 2), OrientedRect(6 * G, 0, 4, 8, 1)}

InitStars ==
    /\ tree = QuadTree(1, 0, MaxDepthCfg)
    /\ nodes = (<<>> :> QuadNode(Rect(0, 0, 2 * G, 2 * G), 0, <<>>))
    /\ last = NoCall("QuadTree")
    /\ prev = NoCall("QuadTree")
    /\ nsub = 0
    /\ issued = <<>>
    /\ rules = <<>>
    /\ heap = <<>>
    /\ calls = <<>>
    /\ lists = <<>>

\* stars = node.generate_stars() on a node the caller reaches from the root
GenerateStars(pos) ==
    LET self == nodes[pos]
        addr == <<self.depth, self.path>>
        r    == generate_stars(nodes, pos)
    IN  /\ addr \in DOMAIN issued \/ Cardinality(DOMAIN issued) < MaxStarred
        /\ nodes' = r.nodes
        /\ last' = [NoCall("generate_stars") EXCEPT
                        !.ret = r.ret, !.node = pos,
                        !.cached = (self.stars # None),
                        !.known = (addr \in DOMAIN issued)]
        /\ issued' = IF addr \in DOMAIN issued THEN issued
                     ELSE issued @@ (addr :> r.ret)
        /\ UNCHANGED <<tree, prev, nsub, rules, heap, calls, lists>>

NextStars ==
    \/ \E vp \in StarViewports : Update(vp)
    \/ \E pos \in DOMAIN nodes : GenerateStars(pos)

SpecStars == InitStars /\ [][NextStars]_vars

----------------------------------------------------------------------------
\* Direct subdivide() calls on a tree that update() has grown and whose
\* nodes hold cached stars: one viewport inside the root box, one that
\* misses it.
SubViewports ==
    {OrientedRect(5, 0-3, 2, 3, 1), OrientedRect(6*G, 0, 4, 8, 1)}

\* update() grows the tree one level; deeper nodes come from the caller
InitSub ==
    /\ tree = QuadTree(1, 0, 1)
    /\ nodes = (<<>> :> QuadNode(Rect(0, 0, 2*G, 2*G), 0, <<>>))
    /\ last = NoCall("QuadTree")
    /\ prev = NoCall("QuadTree")
    /\ nsub = 0
    /\ issued = <<>>
    /\ rules = <<>>
    /\ heap = <<>>
    /\ calls = <<>>
    /\ lists = <<>>

\* the caller subdivides, and draws the stars of, the root or one of its
\* children
NextSub ==
    \/ \E vp \in SubViewports : Update(vp)
    \/ \E pos \in {p \in DOMAIN nodes : Len(p) <= 1} : GenerateStars(pos)
    \/ \E pos \in {p \in DOMAIN nodes : Len(p) <= 1} : Subdivide(pos)

SpecSub == InitSub /\ [][NextSub]_vars

----------------------------------------------------------------------------
(* Queries with the default stop predicate and with predicates of the      *)
(* caller's, on a 32-unit root with max_depth 2.  Between two queries the  *)
(* caller may draw the stars of the nodes the last one returned.           *)

\* a close look that straddles two quadrants, a turned half-size look, a
\* look at the whole root, and a look past it that collapses the tree
QueryViewports ==
    {OrientedRect(5, 0 - 3, 2, 3, 1), OrientedRect(0 - 9, 6, 8, 8, 5),
     OrientedRect(5, 0 - 3, 16, 16, 2), OrientedRect(48, 0, 4, 8, 1)}

CallerStops ==
    {CallerStop("never"), CallerStop("always"), CallerStop("contained"),
     CallerStop("leaf")}

InitQuery ==
    /\ tree = QuadTree(1, 0, 2)
    /\ nodes = (<<>> :> QuadNode(Rect(0, 0, 16, 16), 0, <<>>))
    /\ last = NoCall("QuadTree")
    /\ prev = NoCall("QuadTree")
    /\ nsub = 0
    /\ issued = <<>>
    /\ rules = <<>>
    /\ heap = <<>>
    /\ calls = <<>>
    /\ lists = <<>>

\* visited = tree.update(vp, stop=stop)
UpdateStop(vp, stop) ==
    LET r == update_stop(tree, nodes, vp, stop)
    IN  /\ nodes' = r.nodes
        /\ last' = [op |-> "update, stop", vp |-> vp, ret |-> r.visited,
                    exc |-> "", root_was_leaf |-> is_leaf(nodes[<<>>]),
                    stop |-> stop]
        /\ nsub' = 0
        /\ UNCHANGED <<tree, prev, issued, rules, heap, calls, lists>>

\* tree.update(vp) once more, straight after tree.update(vp)
UpdateAgain ==
    LET r == update(tree, nodes, last.vp)
    IN  /\ last.op \in {"update", "update again"}
        /\ nodes' = r.nodes
        /\ last' = [op |-> "update again", vp |-> last.vp, ret |-> r.visited,
                    exc |-> "", root_was_leaf |-> is_leaf(nodes[<<>>])]
        /\ nsub' = 0
        /\ UNCHANGED <<tree, prev, issued, rules, heap, calls, lists>>

\* node.generate_stars() on a node of the list the last query returned
ReadStars(pos) ==
    LET self == nodes[pos]
        addr == <<self.depth, self.path>>
        r    == generate_stars(nodes, pos)
    IN  /\ last.op \in {"update", "update, stop", "update again"}
        /\ \E i \in 1..Len(last.ret) : last.ret[i] = pos
        /\ addr \in DOMAIN issued \/ Cardinality(DOMAIN issued) < MaxStarred
        /\ nodes' = r.nodes
        /\ issued' = IF addr \in DOMAIN issued THEN issued
                     ELSE issued @@ (addr :> r.ret)
        /\ UNCHANGED <<tree, last, prev, nsub, rules, heap, calls, lists>>

NextQuery ==
    \/ \E vp \in QueryViewports : Update(vp)
    \/ \E vp \in QueryViewports, stop \in CallerStops : UpdateStop(vp, stop)
    \/ UpdateAgain
    \/ \E pos \in {p \in DOMAIN nodes : Len(p) <= 1} : ReadStars(pos)

SpecQuery == InitQuery /\ [][NextQuery]_vars

----------------------------------------------------------------------------
(* Trees grown to their full depth, on a square root box and on an         *)
(* off-centre one twice as wide as high, for the derived addresses of      *)
(* their nodes                                                             *)

InitGrid ==
    /\ tree \in {QuadTree(1, 0, MaxDepthCfg), QuadTree(2, 0, MaxDepthCfg)}
    /\ \E r \in RootBoxes : nodes = (<<>> :> QuadNode(r, 0, <<>>))
    /\ last = NoCall("QuadTree")
    /\ prev = NoCall("QuadTree")
    /\ nsub = 0
    /\ issued = <<>>
    /\ rules = <<>>
    /\ heap = <<>>
    /\ calls = <<>>
    /\ lists = <<>>

\* the cells of the deepest level that the caller subdivides: those whose
\* path goes round the quadrants, each step the next index
Winding == {p \in DOMAIN nodes :
                /\ Len(p) = tree.max_depth
                /\ \A i \in 2..Len(p) : p[i] = (p[i - 1] + 1) % 4}

NextGrid ==
    \/ \E vp \in StarViewports : Update(vp)
    \/ \E vp \in StarViewports, stop \in CallerStops : UpdateStop(vp, stop)
    \/ \E pos \in Winding : Subdivide(pos)

SpecGrid == InitGrid /\ [][NextGrid]_vars

----------------------------------------------------------------------------
(* Queries step by step.  Where calls interleave, a node object is named   *)
(* by an identity, so that a detached child and the child built later in   *)
(* its place are two objects.  A call is a stack of traverse frames; a     *)
(* frame holds `self`, the statement it is at, and the tuple and the index *)
(* of its for loop.  A step reads or writes one shared field at most.      *)

\* the identity of tree.root
RootId == 0

Workers == DOMAIN calls

\* a traverse call about to run on `self`
Frame(self) == [self |-> self, pc |-> "intersects", kids |-> None, i |-> 0]

\* a worker that has made no call yet; `once` workers make one call only
IdleCall(once) ==
    [status |-> "idle", exc |-> "", vp |-> None, stop |-> None,
     max_depth |-> 0, out |-> 0, start |-> RootId, stack |-> <<>>,
     overlapped |-> FALSE, once |-> once]

\* stop=None: update() builds the default predicate itself
NoStop == CallerStop("default")

Top(wk) == calls[wk].stack[Len(calls[wk].stack)]

Running(wk) == calls[wk].status = "running"

At(wk, pc) == Running(wk) /\ calls[wk].stack # <<>> /\ Top(wk).pc = pc

Goto(wk, pc) == [calls EXCEPT ![wk].stack[Len(calls[wk].stack)].pc = pc]

\* return from traverse
Pop(wk) == [calls EXCEPT ![wk].stack = Front(@)]

\* the objects that the tree, a frame or a list refers to
Held(c, l) ==
    {RootId}
    \cup UNION {UNION {{c[wk].stack[k].self}
                       \cup {c[wk].stack[k].kids[i] :
                                i \in 1..Len(c[wk].stack[k].kids)} :
                            k \in 1..Len(c[wk].stack)} : wk \in DOMAIN c}
    \cup UNION {{l[q][i] : i \in 1..Len(l[q])} : q \in DOMAIN l}

\* what is left of the heap when the unreferenced objects are released
Collect(hp, c, l) ==
    [id \in UNION {Reach(hp, r) : r \in Held(c, l)} |-> hp[id]]

\* the identities of k new objects
RECURSIVE FreshFrom(_, _, _)
FreshFrom(hp, n, k) ==
    IF k = 0 THEN <<>>
    ELSE IF n \in DOMAIN hp THEN FreshFrom(hp, n + 1, k)
         ELSE <<n>> \o FreshFrom(hp, n + 1, k - 1)

\* the outcome of a step
Commit(hp, c, l) ==
    /\ heap' = Collect(hp, c, l)
    /\ calls' = c
    /\ lists' = l
    /\ UNCHANGED <<tree, nodes, last, prev, nsub, issued, rules>>

\* update(): the stop predicate, the empty list, and the call on the root
StartQuery(wk, vp, stop) ==
    LET others == {o \in Workers \ {wk} : Running(o)}
        st == IF stop = NoStop
              THEN default_stop_predicate(tree, heap[RootId].rect, vp)
              ELSE stop
        mine == [status |-> "running", exc |-> "", vp |-> vp, stop |-> st,
                 max_depth |-> tree.max_depth, out |-> wk, start |-> RootId,
                 stack |-> <<Frame(RootId)>>, overlapped |-> others # {},
                 once |-> calls[wk].once]
    IN  /\ ~Running(wk)
        /\ calls[wk].once => calls[wk].status = "idle"
        /\ Commit(heap,
                  [o \in Workers |->
                      IF o = wk THEN mine
                      ELSE IF o \in others
                           THEN [calls[o] EXCEPT !.overlapped = TRUE]
                           ELSE calls[o]],
                  [lists EXCEPT ![wk] = <<>>])

\* if not viewport.intersects_aabb(self.rect): prune and return; otherwise
\* visited.append(self)
Intersects(wk) ==
    /\ At(wk, "intersects")
    /\ LET self == Top(wk).self
       IN  IF ~IntersectsAABB(calls[wk].vp, heap[self].rect)
           THEN Commit([heap EXCEPT ![self].children = None], Pop(wk), lists)
           ELSE Commit(heap, Goto(wk, "stop"),
                       [lists EXCEPT ![calls[wk].out] = Append(@, self)])

\* a stop test without the depth ceiling
StopTestUnbounded(wk) ==
    /\ At(wk, "stop")
    /\ LET self == heap[Top(wk).self]
           should_stop == StopCall(calls[wk].stop, self, calls[wk].vp)
       IN  Commit(heap, Goto(wk, IF should_stop THEN "collapse" ELSE "check"),
                  lists)

\* should_stop = stop(self, viewport), or the depth ceiling
StopTest(wk) ==
    /\ At(wk, "stop")
    /\ LET self == heap[Top(wk).self]
           should_stop == \/ StopCall(calls[wk].stop, self, calls[wk].vp)
                          \/ self.depth >= calls[wk].max_depth
       IN  Commit(heap, Goto(wk, IF should_stop THEN "collapse" ELSE "check"),
                  lists)

\* a collapse that also cuts the stopped node's siblings off, by clearing
\* the children of their parent
CollapseAtParent(wk) ==
    /\ At(wk, "collapse")
    /\ LET self == Top(wk).self
       IN  Commit([n \in DOMAIN heap |->
                      IF n = self \/ \E i \in 1..Len(heap[n].children) :
                                        heap[n].children[i] = self
                      THEN [heap[n] EXCEPT !.children = None]
                      ELSE heap[n]],
                  Pop(wk), lists)

\* if should_stop: self.children = None; return
Collapse(wk) ==
    /\ At(wk, "collapse")
    /\ Commit([heap EXCEPT ![Top(wk).self].children = None], Pop(wk), lists)

\* if self.children is None: call subdivide
Check(wk) ==
    /\ At(wk, "check")
    /\ Commit(heap,
              Goto(wk, IF heap[Top(wk).self].children = None
                      THEN "subdivide" ELSE "iterate"),
              lists)

\* subdivide: if self.children is not None: return
SubdivideCheck(wk) ==
    /\ At(wk, "subdivide")
    /\ Commit(heap,
              Goto(wk, IF heap[Top(wk).self].children # None
                      THEN "iterate" ELSE "assign"),
              lists)

\* a subdivide that builds the children and does not store them
SubdivideUnassigned(wk) ==
    /\ At(wk, "assign")
    /\ Commit(heap, Goto(wk, "iterate"), lists)

\* subdivide: self.children = tuple(QuadNode(...) for ...)
SubdivideAssign(wk) ==
    /\ At(wk, "assign")
    /\ LET id   == Top(wk).self
           self == heap[id]
           q    == quadrants(self.rect)
           kids == FreshFrom(heap, 0, Len(q))
           made == [i \in 1..Len(q) |->
                       QuadNode(q[i], self.depth + 1,
                                Append(self.path, i - 1))]
       IN  Commit([n \in DOMAIN heap \cup {kids[i] : i \in 1..Len(q)} |->
                      IF n = id THEN [self EXCEPT !.children = kids]
                      ELSE IF n \in DOMAIN heap THEN heap[n]
                      ELSE made[CHOOSE i \in 1..Len(q) : kids[i] = n]],
                  Goto(wk, "iterate"), lists)

\* for child in self.children: the field is read once, and iterating None
\* raises TypeError
Iterate(wk) ==
    /\ At(wk, "iterate")
    /\ LET kids == heap[Top(wk).self].children
       IN  IF kids = None
           THEN Commit(heap,
                       [calls EXCEPT ![wk].status = "failed",
                                     ![wk].exc = "TypeError"],
                       lists)
           ELSE Commit(heap,
                       [calls EXCEPT
                           ![wk].stack[Len(calls[wk].stack)] =
                               [@ EXCEPT !.pc = "loop", !.kids = kids,
                                         !.i = 1]],
                       lists)

\* the next child.traverse(...) of the loop, or the end of the loop
Loop(wk) ==
    /\ At(wk, "loop")
    /\ LET f == Top(wk)
       IN  IF f.i <= Len(f.kids)
           THEN Commit(heap,
                       [calls EXCEPT ![wk].stack =
                           Append([@ EXCEPT ![Len(@)].i = f.i + 1],
                                  Frame(f.kids[f.i]))],
                       lists)
           ELSE Commit(heap, Pop(wk), lists)

\* the outermost traverse has returned: update() returns visited
Return(wk) ==
    /\ Running(wk)
    /\ calls[wk].stack = <<>>
    /\ Commit(heap, [calls EXCEPT ![wk].status = "returned"], lists)

\* one step of a call in flight
TraverseStep ==
    \/ \E wk \in Workers : Intersects(wk)
    \/ \E wk \in Workers : StopTest(wk)
    \/ \E wk \in Workers : Collapse(wk)
    \/ \E wk \in Workers : Check(wk)
    \/ \E wk \in Workers : SubdivideCheck(wk)
    \/ \E wk \in Workers : SubdivideAssign(wk)
    \/ \E wk \in Workers : Iterate(wk)
    \/ \E wk \in Workers : Loop(wk)
    \/ \E wk \in Workers : Return(wk)

----------------------------------------------------------------------------
(* One caller that makes query after query, each run step by step *)

InitRun ==
    /\ tree = QuadTree(1, 0, 2)
    /\ nodes = (<<>> :> QuadNode(Rect(0, 0, 16, 16), 0, <<>>))
    /\ last = NoCall("QuadTree")
    /\ prev = NoCall("QuadTree")
    /\ nsub = 0
    /\ issued = <<>>
    /\ rules = <<>>
    /\ heap = (RootId :> QuadNode(Rect(0, 0, 16, 16), 0, <<>>))
    /\ calls = (1 :> IdleCall(FALSE))
    /\ lists = (1 :> <<>>)

NextRun ==
    \/ \E wk \in Workers, vp \in QueryViewports,
          stop \in {NoStop} \cup CallerStops : StartQuery(wk, vp, stop)
    \/ TraverseStep

SpecRun == InitRun /\ [][NextRun]_vars

\* a call in flight keeps running: the interpreter executes its next
\* statement
SpecRunFair == SpecRun /\ WF_vars(TraverseStep)

----------------------------------------------------------------------------
(* Two callers that each make one query on the same tree, with nothing to  *)
(* keep their steps apart                                                  *)

InitPair ==
    /\ tree = QuadTree(1, 0, 2)
    /\ nodes = (<<>> :> QuadNode(Rect(0, 0, 16, 16), 0, <<>>))
    /\ last = NoCall("QuadTree")
    /\ prev = NoCall("QuadTree")
    /\ nsub = 0
    /\ issued = <<>>
    /\ rules = <<>>
    /\ heap = (RootId :> QuadNode(Rect(0, 0, 16, 16), 0, <<>>))
    /\ calls = (1 :> IdleCall(TRUE)) @@ (2 :> IdleCall(TRUE))
    /\ lists = (1 :> <<>>) @@ (2 :> <<>>)

NextPair ==
    \/ \E wk \in Workers, vp \in QueryViewports : StartQuery(wk, vp, NoStop)
    \/ TraverseStep

SpecPair == InitPair /\ [][NextPair]_vars

----------------------------------------------------------------------------
(* The four child.traverse(...) calls of a descending root, each run by a  *)
(* worker of its own.  The workers append to the one `visited` list, on    *)
(* which the root stands already; `nodes` keeps the tree as the root's     *)
(* call had it before its for loop.                                        *)

\* the identity given to the object at a position of a tree at rest
RECURSIVE PosId(_)
PosId(p) == IF p = <<>> THEN RootId ELSE 4 * PosId(Front(p)) + p[Len(p)] + 1

\* a tree at rest, its objects named by identity
ToHeap(ns) ==
    [n \in {PosId(p) : p \in DOMAIN ns} |->
        LET p    == CHOOSE q \in DOMAIN ns : PosId(q) = n
            kids == ns[p].children
        IN  [ns[p] EXCEPT !.children = [i \in 1..Len(kids) |-> PosId(kids[i])]]]

\* the viewport and stop predicate of the root's call: every viewport with
\* the default predicate, the close look with a predicate of the caller's
SiblingCases ==
    {<<vp, NoStop>> : vp \in QueryViewports}
    \cup {<<OrientedRect(5, 0 - 3, 2, 3, 1), stop>> : stop \in CallerStops}

\* the root's call has reached its for loop: it intersects, is not stopped,
\* and has children
Descending(ns, vp, stop, max_depth) ==
    /\ IntersectsAABB(vp, ns[<<>>].rect)
    /\ ~(StopCall(stop, ns[<<>>], vp) \/ ns[<<>>].depth >= max_depth)

InitSiblings ==
    /\ tree = QuadTree(1, 0, 2)
    /\ \E vp0 \in QueryViewports, case \in SiblingCases :
        LET fresh  == (<<>> :> QuadNode(Rect(0, 0, 16, 16), 0, <<>>))
            before == update(tree, fresh, vp0).nodes
            vp     == case[1]
            stop   == IF case[2] = NoStop
                      THEN default_stop_predicate(tree, fresh[<<>>].rect, vp)
                      ELSE case[2]
            grown  == subdivide(before, <<>>)
        IN  /\ Descending(before, vp, stop, tree.max_depth)
            /\ nodes = grown
            /\ heap = ToHeap(grown)
            /\ calls = [i \in 1..4 |->
                        [status |-> "running", exc |-> "", vp |-> vp,
                         stop |-> stop, max_depth |-> tree.max_depth,
                         out |-> 0, start |-> PosId(<<i - 1>>),
                         stack |-> <<Frame(PosId(<<i - 1>>))>>,
                         overlapped |-> FALSE, once |-> TRUE]]
            /\ lists = (0 :> <<RootId>>)
    /\ last = NoCall("QuadTree")
    /\ prev = NoCall("QuadTree")
    /\ nsub = 0
    /\ issued = <<>>
    /\ rules = <<>>

NextSiblings == TraverseStep

SpecSiblings == InitSiblings /\ [][NextSiblings]_vars

----------------------------------------------------------------------------
(* myrand called directly: hash64 on a sequence and on a reordering of it,
   u01 on a seed and a tag *)

\* the longest argument list given to hash64
MaxHashLen == 3

\* 12521937066756937403 and 6886909642681059564
HashArgX == <<187, 22, 216, 11, 107, 219, 198, 173>>
HashArgY == <<236, 136, 55, 228, 212, 55, 147, 95>>

\* argument values: small numbers, the world seed, two large words
HashWords == {Word(0), Word(1), Word(GLOBAL_SEED), HashArgX, HashArgY}

HashArgs == UNION {[1..n -> HashWords] : n \in 2..MaxHashLen}

Perms(n) == {f \in [1..n -> 1..n] : \A i, j \in 1..n : f[i] = f[j] => i = j}

Permuted(vals, f) == [i \in 1..Len(vals) |-> vals[f[i]]]

\* the calls a caller makes: hash64 on an argument list and on a reordering
\* of it, or u01 on a seed and a tag
HashCalls ==
    UNION {{[op |-> "call hash64", vals |-> vals, perm |-> Permuted(vals, f)] :
                f \in Perms(Len(vals))} : vals \in HashArgs}

U01Calls ==
    {[op |-> "call u01", seed |-> seed, tag |-> tag] :
        seed \in HashWords, tag \in HashWords}

InitHash ==
    /\ tree = QuadTree(1, 0, 0)
    /\ nodes = (<<>> :> QuadNode(Rect(0, 0, 2 * G, 2 * G), 0, <<>>))
    /\ last \in HashCalls \cup U01Calls
    /\ prev = NoCall("QuadTree")
    /\ nsub = 0
    /\ issued = <<>>
    /\ rules = <<>>
    /\ heap = <<>>
    /\ calls = <<>>
    /\ lists = <<>>

\* hash64(*vals) and hash64(*perm)
Hash64 ==
    /\ last.op = "call hash64"
    /\ last' = [op |-> "hash64", vals |-> last.vals, perm |-> last.perm,
                ret |-> hash64(last.vals), ret_perm |-> hash64(last.perm)]
    /\ UNCHANGED <<tree, nodes, prev, nsub, issued, rules, heap, calls, lists>>

\* u01(seed, tag): the numerator over 2^53
U01 ==
    /\ last.op = "call u01"
    /\ last' = [op |-> "u01", seed |-> last.seed, tag |-> last.tag,
                ret |-> u01(last.seed, last.tag)]
    /\ UNCHANGED <<tree, nodes, prev, nsub, issued, rules, heap, calls, lists>>

NextHash == Hash64 \/ U01

SpecHash == InitHash /\ [][NextHash]_vars

----------------------------------------------------------------------------
(* splitmix64 on its own: zero, one, every single bit up to 2^53, the      *)
(* world seed, two words with all bytes in use, and 2^64 - 1               *)

AllOnes == Sub64(Word(0), Word(1))

MixWords ==
    {Word(0), Word(GLOBAL_SEED), HashArgX, HashArgY, AllOnes}
    \cup {Pow2Word(t) : t \in 0..53}

InitMix ==
    /\ tree = QuadTree(1, 0, 0)
    /\ nodes = (<<>> :> QuadNode(Rect(0, 0, 2 * G, 2 * G), 0, <<>>))
    /\ last \in {[op |-> "call splitmix64", x |-> x] : x \in MixWords}
    /\ prev = NoCall("QuadTree")
    /\ nsub = 0
    /\ issued = <<>>
    /\ rules = <<>>
    /\ heap = <<>>
    /\ calls = <<>>
    /\ lists = <<>>

\* splitmix64(x)
SplitMix64 ==
    /\ last.op = "call splitmix64"
    /\ last' = [op |-> "splitmix64", x |-> last.x,
                values |-> splitmix64_values(last.x),
                ret |-> splitmix64(last.x)]
    /\ UNCHANGED <<tree, nodes, prev, nsub, issued, rules, heap, calls, lists>>

NextMix == SplitMix64

SpecMix == InitMix /\ [][NextMix]_vars

----------------------------------------------------------------------------
(* Star generation on single nodes of a deep tree.  generate_stars reads   *)
(* the node's own rect, depth and path only, so the node table holds that  *)
(* one node, under its position.                                           *)

DeepRoot == Rect(0, 0, 1024, 1024)

\* the depth at which a cell is two world units wide
DeepDepth == CHOOSE d \in 0..20 : Pow2(d) = DeepRoot.hw

\* the box reached from r along a path of child indices
RECURSIVE RectAt(_, _)
RectAt(r, path) ==
    IF path = <<>> THEN r
    ELSE RectAt(quadrants(r)[Head(path) + 1], Tail(path))

\* paths that repeat three child indices
DeepPatterns == {<<0, 0, 0>>, <<3, 3, 3>>, <<0, 0, 2>>, <<1, 2, 3>>, <<3, 1, 0>>}

DeepPaths ==
    {[i \in 1..d |-> pat[((i - 1) % 3) + 1]] : pat \in DeepPatterns, d \in 0..DeepDepth}

InitDeep ==
    /\ tree = QuadTree(1, 0, DeepDepth)
    /\ nodes \in {(path :> QuadNode(RectAt(DeepRoot, path), Len(path), path)) :
                    path \in DeepPaths}
    /\ last = NoCall("QuadTree")
    /\ prev = NoCall("QuadTree")
    /\ nsub = 0
    /\ issued = <<>>
    /\ rules = <<>>
    /\ heap = <<>>
    /\ calls = <<>>
    /\ lists = <<>>

NextDeep == \E pos \in DOMAIN nodes : GenerateStars(pos)

SpecDeep == InitDeep /\ [][NextDeep]_vars

----------------------------------------------------------------------------
(* Star generation in the demo's world, QuadTree.from_center(0, 0, 512,    *)
(* 512), down to depth 20.  The unit of length here is 2^-11 of the        *)
(* source's, the half width of a cell of depth 20: every box of the tree   *)
(* is then whole, and since doubles scale by a power of two without        *)
(* rounding, every coordinate is the source's times 2^11.                  *)

EdgeRoot == Rect(0, 0, 1048576, 1048576)

\* four cells of depth 20 in the upper right quarter of the world
EdgeCells ==
    {<<1, 1, 0, 2, 2, 0, 2, 2, 2, 1, 2, 1, 0, 2, 0, 3, 1, 3, 2, 2>>,
     <<1, 1, 2, 0, 0, 2, 0, 0, 2, 3, 1, 0, 3, 2, 1, 0, 0, 3, 2, 3>>,
     <<1, 1, 0, 2, 0, 2, 0, 0, 1, 0, 3, 2, 0, 2, 0, 2, 2, 0, 2, 0>>,
     <<1, 1, 0, 2, 2, 2, 2, 2, 0, 1, 2, 1, 1, 3, 3, 3, 2, 1, 3, 2>>}

\* those cells and their ancestors of depth 10 and more
EdgePaths == {SubSeq(path, 1, d) : path \in EdgeCells, d \in 10..20}

InitEdge ==
    /\ tree = QuadTree(4, 0, 20)
    /\ nodes \in {(path :> QuadNode(RectAt(EdgeRoot, path), Len(path), path)) :
                    path \in EdgePaths}
    /\ last = NoCall("QuadTree")
    /\ prev = NoCall("QuadTree")
    /\ nsub = 0
    /\ issued = <<>>
    /\ rules = <<>>
    /\ heap = <<>>
    /\ calls = <<>>
    /\ lists = <<>>

NextEdge == \E pos \in DOMAIN nodes : GenerateStars(pos)

SpecEdge == InitEdge /\ [][NextEdge]_vars

----------------------------------------------------------------------------
(* GalaxyCoordinate (src/features/core/coordinates.py).  An index that may *)
(* be None is a sequence: <<>> for None, <<n>> for n.  `last` holds the    *)
(* call: its arguments, the exception raised if any, and in ret the object *)
(* it returned, <<>> when it returned None or raised.                      *)

GalaxyCoordinate(tile_x, tile_y, star_index, planet_index) ==
    [tile_x |-> tile_x, tile_y |-> tile_y,
     star_index |-> star_index, planet_index |-> planet_index]

has_star(self) == self.star_index # None

has_planet(self) == self.planet_index # None

\* a __post_init__ that validates nothing
post_init_unchecked(self) == FALSE

\* __post_init__ raises ValueError
post_init_raises(self) == has_planet(self) /\ ~has_star(self)

\* the level property; the (False, True) case raises ValueError
level(self) ==
    IF ~has_star(self) /\ ~has_planet(self) THEN "tile"
    ELSE IF has_star(self) /\ ~has_planet(self) THEN "star"
    ELSE IF has_star(self) /\ has_planet(self) THEN "planet"
    ELSE "ValueError"

\* the outcome of a constructor call: the exception and the object
Constructed(self) ==
    IF post_init_raises(self) THEN [exc |-> "ValueError", ret |-> <<>>]
    ELSE [exc |-> "", ret |-> <<self>>]

tile_coord(self) == <<self.tile_x, self.tile_y>>

\* self.parent(), self of a valid level
parent(self) ==
    IF level(self) = "planet"
    THEN Constructed(GalaxyCoordinate(self.tile_x, self.tile_y, self.star_index, None))
    ELSE IF level(self) = "star"
    THEN Constructed(GalaxyCoordinate(self.tile_x, self.tile_y, None, None))
    ELSE [exc |-> "", ret |-> <<>>]

\* self.child(index), self of a valid level
child(self, index) ==
    IF level(self) = "planet" THEN [exc |-> "", ret |-> <<>>]
    ELSE IF level(self) = "star"
    THEN Constructed(GalaxyCoordinate(self.tile_x, self.tile_y, self.star_index, <<index>>))
    ELSE Constructed(GalaxyCoordinate(self.tile_x, self.tile_y, <<index>>, None))

TileInts == {0, 1}
Indexes == {0, 1, 42}
OptionalIndexes == {None} \cup {<<n>> : n \in Indexes}

CoordCall(op, self, index, out) ==
    [op |-> op, self |-> self, index |-> index, exc |-> out.exc, ret |-> out.ret]

InitCoord ==
    /\ tree = QuadTree(1, 0, 0)
    /\ nodes = (<<>> :> QuadNode(Rect(0, 0, 2 * G, 2 * G), 0, <<>>))
    /\ last = CoordCall("import", <<>>, <<>>, [exc |-> "", ret |-> <<>>])
    /\ prev = NoCall("QuadTree")
    /\ nsub = 0
    /\ issued = <<>>
    /\ rules = <<>>
    /\ heap = <<>>
    /\ calls = <<>>
    /\ lists = <<>>

\* GalaxyCoordinate(tile_x, tile_y, star_index, planet_index)
NewCoordinate(tile_x, tile_y, star_index, planet_index) ==
    LET args == GalaxyCoordinate(tile_x, tile_y, star_index, planet_index)
    IN  /\ last' = CoordCall("GalaxyCoordinate", <<args>>, <<>>, Constructed(args))
        /\ UNCHANGED <<tree, nodes, prev, nsub, issued, rules, heap, calls, lists>>

\* coord.parent() on the coordinate the last call returned
Parent ==
    /\ last.ret # <<>>
    /\ last' = CoordCall("parent", last.ret, <<>>, parent(last.ret[1]))
    /\ UNCHANGED <<tree, nodes, prev, nsub, issued, rules, heap, calls, lists>>

\* coord.child(index) on the coordinate the last call returned
Child(index) ==
    /\ last.ret # <<>>
    /\ last' = CoordCall("child", last.ret, <<index>>, child(last.ret[1], index))
    /\ UNCHANGED <<tree, nodes, prev, nsub, issued, rules, heap, calls, lists>>

NextCoord ==
    \/ \E tile_x \in TileInts, tile_y \in TileInts :
        \E star_index \in OptionalIndexes, planet_index \in OptionalIndexes :
            NewCoordinate(tile_x, tile_y, star_index, planet_index)
    \/ Parent
    \/ \E index \in Indexes : Child(index)

SpecCoord == InitCoord /\ [][NextCoord]_vars

----------------------------------------------------------------------------
(* RuleEngine (src/procedural_features/generators/rules.py).  A rule is a  *)
(* record of its class name and its priority.  What a rule does in a       *)
(* context is one of "apply" (applies_to is true and apply returns),       *)
(* "skip" (applies_to is false) and "raise" (applies_to or apply raises,   *)
(* which apply_rules logs and passes over).  The properties are the list   *)
(* of the rules that have modified them, in order.                         *)

\* the most rules an engine is given
MaxRules == 3

Rule(name, priority) == [name |-> name, priority |-> priority]

\* the rules of create_default_rule_engine
RuleClasses ==
    {Rule("HabitableZoneRule", 100), Rule("OldStarRule", 50),
     Rule("YoungStarRule", 50), Rule("MetallicityRule", 80),
     Rule("HighMetallicityCitiesRule", 10)}

\* a planet of an old star; a planet whose context has star_props None; a
\* city
Contexts == {"planet", "planet, star_props None", "city"}

\* rule.applies_to(context) and rule.apply(properties, context)
Outcome(rule, context) ==
    IF rule.name = "HabitableZoneRule"
    THEN IF context = "planet" THEN "apply" ELSE "skip"
    ELSE IF rule.name = "OldStarRule"
    THEN IF context = "planet" THEN "apply"
         ELSE IF context = "city" THEN "skip" ELSE "raise"
    ELSE IF rule.name = "YoungStarRule"
    THEN IF context = "planet, star_props None" THEN "raise" ELSE "skip"
    ELSE IF rule.name = "MetallicityRule"
    THEN IF context = "planet" THEN "apply"
         ELSE IF context = "city" THEN "skip" ELSE "raise"
    ELSE IF context = "city" THEN "apply" ELSE "skip"

\* rule put into a list in order, after the elements of its priority or more
RECURSIVE SortedInsert(_, _)
SortedInsert(rs, rule) ==
    IF rs = <<>> THEN <<rule>>
    ELSE IF Head(rs).priority >= rule.priority
         THEN <<Head(rs)>> \o SortedInsert(Tail(rs), rule)
         ELSE <<rule>> \o rs

\* an add_rule that only appends
add_rule_unsorted(rs, rule) == Append(rs, rule)

\* list.sort(key=lambda r: r.priority, reverse=True): a stable sort, rules
\* of one priority keep their order
RECURSIVE SortByPriority(_)
SortByPriority(rs) ==
    IF rs = <<>> THEN <<>>
    ELSE SortedInsert(SortByPriority(SubSeq(rs, 1, Len(rs) - 1)), rs[Len(rs)])

\* RuleEngine.add_rule: self.rules afterwards
add_rule(rs, rule) == SortByPriority(Append(rs, rule))

\* RuleEngine.apply_rules: the properties returned
RECURSIVE apply_rules(_, _, _)
apply_rules(rs, properties, context) ==
    IF rs = <<>> THEN properties
    ELSE apply_rules(Tail(rs),
                     IF Outcome(Head(rs), context) = "apply"
                     THEN Append(properties, Head(rs)) ELSE properties,
                     context)

\* engine = RuleEngine()
InitRules ==
    /\ tree = QuadTree(1, 0, 0)
    /\ nodes = (<<>> :> QuadNode(Rect(0, 0, 2 * G, 2 * G), 0, <<>>))
    /\ last = [op |-> "RuleEngine", rule |-> <<>>, context |-> "", ret |-> <<>>]
    /\ prev = last
    /\ nsub = 0
    /\ issued = <<>>
    /\ rules = <<>>
    /\ heap = <<>>
    /\ calls = <<>>
    /\ lists = <<>>

\* engine.add_rule(rule)
AddRule(rule) ==
    /\ Len(rules) < MaxRules
    /\ rules' = add_rule(rules, rule)
    /\ last' = [op |-> "add_rule", rule |-> <<rule>>, context |-> "", ret |-> <<>>]
    /\ prev' = last
    /\ UNCHANGED <<tree, nodes, nsub, issued, heap, calls, lists>>

\* engine.apply_rules({}, context)
ApplyRules(context) ==
    /\ last' = [op |-> "apply_rules", rule |-> <<>>, context |-> context,
                ret |-> apply_rules(rules, <<>>, context)]
    /\ prev' = last
    /\ UNCHANGED <<tree, nodes, nsub, issued, rules, heap, calls, lists>>

NextRules ==
    \/ \E rule \in RuleClasses : AddRule(rule)
    \/ \E context \in Contexts : ApplyRules(context)

SpecRules == InitRules /\ [][NextRules]_vars

----------------------------------------------------------------------------
(* The geometry alone: Rect.quadrants and the viewport's tests applied to   *)
(* chosen boxes                                                            *)

\* boxes: square and not, centred on the origin and not, half sizes even
GeomBoxes ==
    {Rect(c[1], c[2], e[1], e[2]) :
        c \in {<<0, 0>>, <<0 - 3, 5>>, <<8, 0 - 7>>},
        e \in {<<2, 2>>, <<6, 4>>, <<4, 10>>, <<16, 16>>}}

\* viewports, upright and turned: inside a box, around it, across an edge,
\* touching an edge, and apart from it
GeomViewports ==
    {OrientedRect(c[1], c[2], e[1], e[2], t) :
        c \in {<<0, 0>>, <<5, 0>>, <<0 - 3, 5>>, <<9, 9>>},
        e \in {<<3, 3>>, <<1, 1>>, <<20, 20>>, <<6, 12>>},
        t \in {1, 2}}

InitGeom ==
    /\ tree = QuadTree(1, 0, MaxDepthCfg)
    /\ \E r \in GeomBoxes : nodes = (<<>> :> QuadNode(r, 0, <<>>))
    /\ last = NoCall("QuadTree")
    /\ prev = NoCall("QuadTree")
    /\ nsub = 0
    /\ issued = <<>>
    /\ rules = <<>>
    /\ heap = <<>>
    /\ calls = <<>>
    /\ lists = <<>>

\* qs = root.rect.quadrants()
Quadrants ==
    /\ last' = [NoCall("quadrants") EXCEPT !.ret = quadrants(nodes[<<>>].rect)]
    /\ UNCHANGED <<tree, nodes, prev, nsub, issued, rules, heap, calls, lists>>

\* vp.intersects_aabb(root.rect)
IntersectsAabb(vp) ==
    /\ last' = [NoCall("intersects_aabb") EXCEPT
                    !.vp = vp, !.ret = IntersectsAABB(vp, nodes[<<>>].rect)]
    /\ UNCHANGED <<tree, nodes, prev, nsub, issued, rules, heap, calls, lists>>

\* vp.contains_aabb(root.rect)
ContainsAabb(vp) ==
    /\ last' = [NoCall("contains_aabb") EXCEPT
                    !.vp = vp, !.ret = contains_aabb(vp, nodes[<<>>].rect)]
    /\ UNCHANGED <<tree, nodes, prev, nsub, issued, rules, heap, calls, lists>>

NextGeom ==
    \/ Quadrants
    \/ \E vp \in GeomViewports : IntersectsAabb(vp)
    \/ \E vp \in GeomViewports : ContainsAabb(vp)

SpecGeom == InitGeom /\ [][NextGeom]_vars

----------------------------------------------------------------------------
(* What the claims speak of *)

root == nodes[<<>>]

\* every quadrant path of length n, and of length at most n
RECURSIVE PathsOfLen(_)
PathsOfLen(n) ==
    IF n = 0 THEN {<<>>}
    ELSE {Append(p, i) : p \in PathsOfLen(n - 1), i \in 0..3}

PathsUpTo(n) == UNION {PathsOfLen(k) : k \in 0..n}

\* the box of the cell of the unbounded quadtree with this path
RECURSIVE BoxOf(_, _)
BoxOf(r, p) ==
    IF p = <<>> THEN r ELSE BoxOf(quadrants(r)[Head(p) + 1], Tail(p))

Target == desired_depth(tree, root.rect, last.vp)

Visited == {last.ret[i] : i \in 1..Len(last.ret)}

\* the viewport lies strictly to one side of the box: every corner of the
\* viewport is beyond one edge of the box
BeyondAnEdge(vp, r) ==
    LET cs == OBBCorners(vp)
    IN  \/ \A i \in 1..4 : cs[i][1] > RotDen * xmax(r)
        \/ \A i \in 1..4 : cs[i][1] < RotDen * xmin(r)
        \/ \A i \in 1..4 : cs[i][2] > RotDen * ymax(r)
        \/ \A i \in 1..4 : cs[i][2] < RotDen * ymin(r)

\* the box lies strictly to one side of the viewport: in the viewport's own
\* frame every corner of the box is beyond one edge of the viewport
BeyondAViewportEdge(vp, r) ==
    LET cs == RectCorners(r)
        lc == [i \in 1..4 |-> ToLocal(vp, cs[i][1], cs[i][2])]
    IN  \/ \A i \in 1..4 : lc[i][1] > RotDen * vp.hw
        \/ \A i \in 1..4 : lc[i][1] < 0 - RotDen * vp.hw
        \/ \A i \in 1..4 : lc[i][2] > RotDen * vp.hh
        \/ \A i \in 1..4 : lc[i][2] < 0 - RotDen * vp.hh

StrictlyOutside(vp, r) == BeyondAnEdge(vp, r) \/ BeyondAViewportEdge(vp, r)

----------------------------------------------------------------------------
\* C1: every node update(viewport) returns has a box that intersects the
\* viewport and a depth no greater than desired_depth(viewport).
C1_VisitedIntersectAndShallow ==
    last.op = "update" =>
        \A p \in Visited :
            /\ IntersectsAABB(last.vp, nodes[p].rect)
            /\ nodes[p].depth <= Target

\* a query on a tree that earlier calls had subdivided, with a turned viewport,
\* that returned cells of the target depth below the depth ceiling
C1_Witness ==
    /\ last.op = "update"
    /\ ~last.root_was_leaf
    /\ last.vp.theta_rad # 1
    /\ Target < tree.max_depth
    /\ \E p \in Visited : nodes[p].depth = Target /\ Target >= 1

\* C2: update(viewport) returns every cell of the unbounded quadtree whose
\* depth is at most desired_depth(viewport) and whose box intersects the
\* viewport.
C2_EveryNeededCellVisited ==
    last.op = "update" =>
        \A c \in PathsUpTo(Target) :
            IntersectsAABB(last.vp, BoxOf(root.rect, c)) =>
                \E p \in Visited :
                    /\ nodes[p].path = c
                    /\ nodes[p].depth = Len(c)
                    /\ nodes[p].rect = BoxOf(root.rect, c)

\* a query that had to return cells of depth 2, some quadrants of which it
\* had to leave out
C2_Witness ==
    /\ last.op = "update"
    /\ Target >= 2
    /\ \E c \in PathsOfLen(2) : IntersectsAABB(last.vp, BoxOf(root.rect, c))
    /\ \E c \in PathsOfLen(2) : ~IntersectsAABB(last.vp, BoxOf(root.rect, c))
    /\ Len(last.ret) >= 6

\* C3: after update(viewport) a reachable node has children if and only if
\* its box intersects the viewport and its depth is below
\* desired_depth(viewport).
C3_ChildrenIffNeeded ==
    last.op = "update" =>
        \A p \in Reach(nodes, <<>>) :
            (nodes[p].children # None) <=>
                (IntersectsAABB(last.vp, nodes[p].rect) /\ nodes[p].depth < Target)

\* a query that found the root subdivided and left both kinds of leaf: one
\* outside the viewport and one at the target depth
C3_Witness ==
    /\ last.op = "update"
    /\ ~last.root_was_leaf
    /\ \E p \in Reach(nodes, <<>>) :
            ~IntersectsAABB(last.vp, nodes[p].rect) /\ is_leaf(nodes[p])
    /\ \E p \in Reach(nodes, <<>>) :
            /\ IntersectsAABB(last.vp, nodes[p].rect)
            /\ nodes[p].depth = Target
            /\ is_leaf(nodes[p])
    /\ \E p \in Reach(nodes, <<>>) : ~is_leaf(nodes[p])

\* C4: a query whose viewport lies strictly outside the root box returns an
\* empty list and leaves the root a leaf.
C4_OutsideViewportEmptiesTree ==
    (last.op = "update" /\ StrictlyOutside(last.vp, root.rect)) =>
        (last.ret = <<>> /\ root.children = None)

\* such a query on a subdivided root, the turned viewport reaching past the
\* root's edges on both world axes
C4_Witness ==
    /\ last.op = "update"
    /\ ~last.root_was_leaf
    /\ BeyondAViewportEdge(last.vp, root.rect)
    /\ ~BeyondAnEdge(last.vp, root.rect)
    /\ last.ret = <<>>
    /\ root.children = None

\* C5: every reachable node has len(path) = depth and path elements in 0..3;
\* a node with children has exactly 4, child i with depth + 1, path + (i,) and
\* the i-th quadrant of its box.
C5_NodeShape ==
    \A p \in Reach(nodes, <<>>) :
        LET n == nodes[p]
        IN  /\ Len(n.path) = n.depth
            /\ \A k \in 1..Len(n.path) : n.path[k] \in 0..3
            /\ n.children # None =>
                /\ Len(n.children) = 4
                /\ \A i \in 1..4 :
                    LET c == nodes[n.children[i]]
                    IN  /\ c.depth = n.depth + 1
                        /\ c.path = Append(n.path, i - 1)
                        /\ c.rect = quadrants(n.rect)[i]

\* a node of depth 2 that the caller subdivided after a query had built the
\* levels above it
C5_Witness ==
    /\ last.op = "subdivide"
    /\ \E p \in Reach(nodes, <<>>) :
            nodes[p].depth = 2 /\ nodes[p].children # None

----------------------------------------------------------------------------
(* The depth claims.  The ratio of a desired_depth call is                 *)
(*   (max(root.w, root.h) * cells_across) / max(1e-9, 2 * min(hw, hh));    *)
(* 2^d is compared with it exactly, without forming large products.        *)

RECURSIVE TwoAdic(_)
TwoAdic(n) == IF n % 2 = 0 THEN 1 + TwoAdic(n \div 2) ELSE 0

OddPart(n) == n \div Pow2(TwoAdic(n))

\* 2^d >= num / den, for d >= 0 and num, den >= 1 below 2^31
PowGeqFrac(d, num, den) ==
    d >= 31 \/ Pow2(d) >= (num + den - 1) \div den

\* 2^d >= a * b, for d >= 0 and a, b >= 1 with OddPart(a) * OddPart(b) < 2^31
PowGeqProd(d, a, b) ==
    LET tz == TwoAdic(a) + TwoAdic(b)
    IN  d >= tz /\ (d - tz >= 31 \/ Pow2(d - tz) >= OddPart(a) * OddPart(b))

RootSizeTimesCells == Max(w(root.rect), h(root.rect)) * tree.cells_across

\* the viewport's shorter side is at or below the 1e-9 floor
Degenerate(vp) == 2 * Min(vp.hw, vp.hh) < 1

\* 2^d >= the ratio of the call desired_depth(vp)
PowGeqRatio(d, vp) ==
    IF Degenerate(vp)
    THEN PowGeqProd(d, RootSizeTimesCells, EpsInv)
    ELSE PowGeqFrac(d, RootSizeTimesCells, 2 * Min(vp.hw, vp.hh))

\* d = clamp(k, lo, hi) for the least integer k with 2^k >= ratio, 0 <= lo <= hi
IsClampedCeilLog2(d, vp, lo, hi) ==
    /\ lo <= d /\ d <= hi
    /\ d < hi => PowGeqRatio(d, vp)
    /\ d > lo => ~PowGeqRatio(d - 1, vp)

DemoSetup(vp) ==
    /\ tree = QuadTree(4, 0, 20)
    /\ root.rect.hw = 512 /\ root.rect.hh = 512
    /\ vp.hw = 90 /\ vp.hh = 160

C8_DepthMonotoneInZoom ==
    (/\ last.op = "desired_depth" /\ prev.op = "desired_depth"
     /\ 0 < last.vp.hw /\ last.vp.hw <= prev.vp.hw
     /\ 0 < last.vp.hh /\ last.vp.hh <= prev.vp.hh) =>
        last.ret >= prev.ret

\* a strictly smaller viewport that got a strictly greater depth
C8_Witness ==
    /\ last.op = "desired_depth" /\ prev.op = "desired_depth"
    /\ 0 < last.vp.hw /\ last.vp.hw < prev.vp.hw
    /\ 0 < last.vp.hh /\ last.vp.hh < prev.vp.hh
    /\ last.ret > prev.ret

ValidConfig ==
    /\ tree.cells_across > 0
    /\ 0 <= tree.min_depth /\ tree.min_depth <= tree.max_depth
    /\ root.rect.hw > 0 /\ root.rect.hh > 0

\* C10: no tree with an invalid configuration ever exists, and no query
\* crashes or answers outside [min_depth, max_depth] because of one.
C10_InvalidConfigRejected ==
    /\ ValidConfig
    /\ last.op = "desired_depth" =>
            /\ last.exc = ""
            /\ tree.min_depth <= last.ret /\ last.ret <= tree.max_depth


----------------------------------------------------------------------------
(* Star generation *)

\* the address of the node a generate_stars call was made on
LastAddr == <<nodes[last.node].depth, nodes[last.node].path>>

\* C6: for a fixed world seed and root box, generate_stars on a node of a
\* given (depth, path) returns the same sequence of stars every time: what a
\* call returns, and what any live node holds, is the list first generated at
\* that address by any node object, also after a prune and a re-subdivision.
C6_StarsFixedByAddress ==
    /\ last.op = "generate_stars" =>
            (LastAddr \in DOMAIN issued /\ last.ret = issued[LastAddr])
    /\ \A p \in DOMAIN nodes :
            nodes[p].stars # None =>
                LET a == <<nodes[p].depth, nodes[p].path>>
                IN  a \in DOMAIN issued /\ nodes[p].stars = issued[a]

\* a node below the root, re-created by a later query after its branch was
\* collapsed, generating afresh the list an earlier object at its address had
C6_Witness ==
    /\ last.op = "generate_stars"
    /\ last.known /\ ~last.cached
    /\ nodes[last.node].depth >= 1
    /\ last.ret = issued[LastAddr]
    /\ Len(last.ret) >= 1


----------------------------------------------------------------------------
(* The geometry claims *)

\* the interiors of two boxes have no point in common
InteriorsDisjoint(a, b) ==
    \/ xmax(a) <= xmin(b) \/ xmax(b) <= xmin(a)
    \/ ymax(a) <= ymin(b) \/ ymax(b) <= ymin(a)

\* box a lies inside box b, edges included
Inside(a, b) ==
    /\ xmin(b) <= xmin(a) /\ xmax(a) <= xmax(b)
    /\ ymin(b) <= ymin(a) /\ ymax(a) <= ymax(b)

\* two boxes overlap or touch: their intervals meet on both world axes
PlainOverlap(a, b) ==
    /\ xmin(a) <= xmax(b) /\ xmin(b) <= xmax(a)
    /\ ymin(a) <= ymax(b) /\ ymin(b) <= ymax(a)

Area(r) == w(r) * h(r)

\* the box an upright viewport covers
UprightBox(vp) == Rect(vp.cx, vp.cy, vp.hw, vp.hh)

C12_UprightAgreesWithPlainTests ==
    /\ (last.op = "intersects_aabb" /\ last.vp.theta_rad = 1) =>
            (last.ret <=> PlainOverlap(UprightBox(last.vp), root.rect))
    /\ (last.op = "contains_aabb" /\ last.vp.theta_rad = 1) =>
            (last.ret <=> Inside(root.rect, UprightBox(last.vp)))

\* an upright viewport that only touches the box along an edge, and is
\* answered that it intersects
C12_Witness ==
    /\ last.op = "intersects_aabb"
    /\ last.vp.theta_rad = 1
    /\ xmin(UprightBox(last.vp)) = xmax(root.rect)
    /\ last.ret = TRUE


----------------------------------------------------------------------------
\* C13: subdivide() is idempotent and not recursive: on a leaf it creates
\* exactly 4 children, themselves leaves without cached stars, and changes
\* nothing else; on a node that has children it changes nothing, so the
\* child objects, their subtrees and their cached stars remain.
C13_SubdivideIdempotent ==
    [][\A pos \in DOMAIN nodes :
        Subdivide(pos) =>
            IF is_leaf(nodes[pos])
            THEN LET kids == nodes'[pos].children
                 IN  /\ Len(kids) = 4
                     /\ Cardinality({kids[i] : i \in 1..4}) = 4
                     /\ DOMAIN nodes' = DOMAIN nodes \cup {kids[i] : i \in 1..4}
                     /\ \A i \in 1..4 :
                            /\ kids[i] \notin DOMAIN nodes
                            /\ nodes'[kids[i]].children = None
                            /\ nodes'[kids[i]].stars = None
                     /\ nodes'[pos] = [nodes[pos] EXCEPT !.children = kids]
                     /\ \A p \in DOMAIN nodes : p # pos => nodes'[p] = nodes[p]
            ELSE nodes' = nodes]_vars

\* a subdivide() call on a node that had children, one of which holds
\* cached stars
C13_Witness ==
    /\ last.op = "subdivide"
    /\ ~last.was_leaf
    /\ \E p \in DOMAIN nodes : Len(p) >= 1 /\ nodes[p].stars # None


----------------------------------------------------------------------------
(* myrand *)

\* C14: hash64 is order-sensitive: for every argument list holding at least
\* two distinct values, a reordering that changes the list changes the
\* 64-bit result.
C14_HashOrderSensitive ==
    (last.op = "hash64" /\ last.perm # last.vals) => last.ret_perm # last.ret


\* C15: u01(seed, tag) is N / 2^53 with N the top 53 bits of
\* mix(seed xor (tag * 0xD6E8FEB86659FD93 mod 2^64)): N * 2^11 plus the low
\* 11 bits of the mixed word gives the mixed word back, and 0 <= N < 2^53,
\* so the result is in [0, 1).
C15_U01TopBits ==
    last.op = "u01" =>
        LET mix == splitmix64(Xor64(last.seed, Mul64(last.tag, TagMul)))
            N   == last.ret
            low == mix[1] + 256 * (mix[2] % 8)
        IN  /\ N \in [1..8 -> 0..255]
            /\ N[8] = 0 /\ N[7] < 32
            /\ Add64(Mul64(N, Word(2048)), Word(low)) = mix

\* a u01 call with a large seed and a nonzero tag that answers 0.5 or more
C15_Witness ==
    /\ last.op = "u01"
    /\ last.seed = HashArgX
    /\ last.tag # Word(0)
    /\ last.ret[7] >= 16


----------------------------------------------------------------------------
(* The stars of one node *)

\* the node a generate_stars call was made on, and its variation draw
LastNode == nodes[last.node]
LastDraw == u01(tileID(LastNode), VariationTag)

\* v is (u - 0.5) * n * 3/10 cut towards zero, u the draw of the last call:
\* 10 * |v| * 2^53 <= |N - 2^52| * 3 * n < 10 * (|v| + 1) * 2^53, with the
\* sign of u - 0.5
IsVariation(v, n) ==
    LET prod == Mul64(OffHalf(LastDraw), Word(3 * n))
        lo   == Mul64(Word(10 * Abs(v)), One)
        hi   == Mul64(Word(10 * (Abs(v) + 1)), One)
    IN  /\ ~Less64(prod, lo)
        /\ Less64(prod, hi)
        /\ (v > 0 => AtLeastHalf(LastDraw))
        /\ (v < 0 => ~AtLeastHalf(LastDraw))

\* the quotient 5^depth / 4^depth cut to a whole number
IsFloorOfGrowth(n, depth) ==
    n * Pow(4, depth) <= Pow(5, depth) /\ Pow(5, depth) < (n + 1) * Pow(4, depth)

\* the quotient 5^depth / 4^depth rounded to the nearest whole number
IsRoundOfGrowth(n, depth) ==
    (2 * n - 1) * Pow(4, depth) <= 2 * Pow(5, depth)
        /\ 2 * Pow(5, depth) < (2 * n + 1) * Pow(4, depth)

\* C16 as stated: a node generates max(1, n_expected + variation) stars with
\* n_expected = round(5^depth / 4^depth), 2 at depth 2 and at depth 3.
C16_CountRounded ==
    (last.op = "generate_stars" /\ ~last.cached) =>
        \E n \in 0..Pow(2, DeepDepth), v \in (0 - DeepDepth)..DeepDepth :
            /\ IsRoundOfGrowth(n, LastNode.depth)
            /\ IsVariation(v, n)
            /\ Len(last.ret) = Max(1, n + v)

\* C16, amended: a node generates max(1, n_expected + variation) stars with
\* n_expected = 5^depth / 4^depth cut to a whole number (1 at depths 0 to 3,
\* 2 at depth 4) and variation = (u01(tile_id, 0xFADECAFE) - 0.5) *
\* n_expected * 0.3 cut towards zero; the count is at least 1.
C16_CountTruncated ==
    (last.op = "generate_stars" /\ ~last.cached) =>
        /\ Len(last.ret) >= 1
        /\ \E n \in 0..Pow(2, DeepDepth), v \in (0 - DeepDepth)..DeepDepth :
                /\ IsFloorOfGrowth(n, LastNode.depth)
                /\ IsVariation(v, n)
                /\ Len(last.ret) = Max(1, n + v)

\* a first call on a node deep enough for the variation to add or remove a
\* star
C16_Witness ==
    /\ last.op = "generate_stars" /\ ~last.cached
    /\ IsFloorOfGrowth(9, LastNode.depth)
    /\ Len(last.ret) = 8


\* C17: every star a node generates has its position inside the node's box,
\* xmin <= x < xmax and ymin <= y < ymax, and a brightness in [0, 1).
C17_StarsInsideBox ==
    last.op = "generate_stars" =>
        \A i \in 1..Len(last.ret) :
            LET st == last.ret[i]
                r  == LastNode.rect
            IN  /\ xmin(r) <= st.position[1].int /\ st.position[1].int < xmax(r)
                /\ ymin(r) <= st.position[2].int /\ st.position[2].int < ymax(r)
                /\ st.brightness.int = 0 /\ Less64(st.brightness.frac, One)


\* C18: stars are generated at most once per node object.  A generate_stars
\* call leaves its result in the node's stars field, returns the stored list
\* when there is one, and touches no other node; an update keeps the stars
\* field of every node that stays in the tree, and every node it creates,
\* also at a position that an earlier node held, starts without stars.
C18_StarsCachedForLife ==
    [][/\ last'.op = "generate_stars" =>
            LET pos == last'.node
            IN  /\ DOMAIN nodes' = DOMAIN nodes
                /\ nodes'[pos].stars = last'.ret
                /\ nodes[pos].stars # None => last'.ret = nodes[pos].stars
                /\ \A p \in DOMAIN nodes : p # pos => nodes'[p] = nodes[p]
       /\ last'.op = "update" =>
            \A p \in DOMAIN nodes' :
                nodes'[p].stars = IF p \in DOMAIN nodes THEN nodes[p].stars
                                  ELSE None]_vars

\* after an update, a node below the root still holds the stars generated
\* before it
C18_Witness ==
    /\ last.op = "update"
    /\ \E p \in DOMAIN nodes :
            /\ Len(p) >= 1
            /\ nodes[p].stars # None
            /\ Len(nodes[p].stars) >= 1


----------------------------------------------------------------------------
(* Coordinates *)

\* C19: constructing a GalaxyCoordinate with a planet_index and no
\* star_index raises ValueError, and every coordinate a constructor call,
\* parent() or child() returns has level 'tile', 'star' or 'planet'.
C19_PlanetNeedsStar ==
    /\ last.op = "GalaxyCoordinate" =>
            LET args == last.self[1]
            IN  (args.planet_index # <<>> /\ args.star_index = <<>>) =>
                    (last.exc = "ValueError" /\ last.ret = <<>>)
    /\ (last.op \in {"GalaxyCoordinate", "parent", "child"} /\ last.ret # <<>>) =>
            level(last.ret[1]) \in {"tile", "star", "planet"}

\* GalaxyCoordinate(1, 1, planet_index=0), rejected
C19_Witness ==
    /\ last.op = "GalaxyCoordinate"
    /\ last.self[1] = GalaxyCoordinate(1, 1, <<>>, <<0>>)
    /\ last.exc = "ValueError"


----------------------------------------------------------------------------
(* Rules *)

\* the priorities of a list of rules never increase along it
ByPriority(rs) ==
    \A i, j \in 1..Len(rs) : i < j => rs[i].priority >= rs[j].priority

\* how many times rule occurs in rs
Count(rs, rule) == Cardinality({i \in 1..Len(rs) : rs[i] = rule})

\* C20: after any sequence of add_rule calls engine.rules is ordered by
\* non-increasing priority, and apply_rules applies the applicable rules in
\* that order: a rule of higher priority before any rule of lower priority,
\* whatever the order of insertion.
C20_RulesByPriority ==
    /\ ByPriority(rules)
    /\ last.op = "apply_rules" =>
            /\ ByPriority(last.ret)
            /\ \A rule \in RuleClasses :
                    Count(last.ret, rule) =
                        IF Outcome(rule, last.context) = "apply"
                        THEN Count(rules, rule) ELSE 0

\* apply_rules right after the rule of highest priority was added last: that
\* rule is applied first, before a rule added earlier
C20_Witness ==
    /\ last.op = "apply_rules" /\ prev.op = "add_rule"
    /\ Len(last.ret) >= 2
    /\ last.ret[1] = prev.rule[1]
    /\ last.ret[1].priority > last.ret[2].priority

----------------------------------------------------------------------------
(* The order of the returned list *)

UpdateOps == {"update", "update, stop", "update again"}

IsPrefix(p, q) == Len(p) <= Len(q) /\ SubSeq(q, 1, Len(p)) = p

\* p and q lie in different sibling subtrees, p's the earlier quadrant
EarlierSibling(p, q) ==
    \E k \in 1..Min(Len(p), Len(q)) :
        SubSeq(p, 1, k - 1) = SubSeq(q, 1, k - 1) /\ p[k] < q[k]

\* C21: the list update() returns is a depth-first pre-order of the visited
\* nodes: no node twice, the root first, every other node after its parent,
\* sibling subtrees in quadrant order 0, 1, 2, 3, and every listed node
\* reachable from the root when update() returns.
C21_VisitedInPreOrder ==
    last.op \in UpdateOps =>
        LET v == last.ret
        IN  /\ \A i, j \in 1..Len(v) : i < j => v[i] # v[j]
            /\ Len(v) > 0 => v[1] = <<>>
            /\ \A i \in 1..Len(v) :
                    v[i] # <<>> => \E j \in 1..(i - 1) : v[j] = Front(v[i])
            /\ \A i, j \in 1..Len(v) :
                    EarlierSibling(v[i], v[j]) => i < j
            /\ \A i \in 1..Len(v) :
                    /\ v[i] \in Reach(nodes, <<>>)
                    /\ nodes[v[i]].path = v[i]

\* a query that came back from depth 2 to a later sibling of depth 1, on a
\* tree that earlier queries had subdivided
C21_Witness ==
    /\ last.op \in UpdateOps
    /\ ~last.root_was_leaf
    /\ \E i, j \in 1..Len(last.ret) :
            /\ i < j
            /\ Len(last.ret[i]) = 2
            /\ Len(last.ret[j]) = 1
    /\ \E i, j \in 1..Len(last.ret) :
            /\ Len(last.ret[i]) = 2
            /\ Len(last.ret[j]) = 2
            /\ Front(last.ret[i]) # Front(last.ret[j])

----------------------------------------------------------------------------
(* Queries and the tree's history *)

\* what a caller reads off a returned node
Handle(ns, p) == <<ns[p].depth, ns[p].path, ns[p].rect>>

Handles(ns, v) == [i \in 1..Len(v) |-> Handle(ns, v[i])]

\* a tree just constructed with the same root box
FreshNodes == (<<>> :> QuadNode(root.rect, 0, <<>>))

\* the same query on the fresh tree
OnFreshTree ==
    IF last.op = "update, stop"
    THEN update_stop(tree, FreshNodes, last.vp, last.stop)
    ELSE update(tree, FreshNodes, last.vp)

\* a predicate that reads nothing but the node's box, depth and path and
\* the viewport
ReadsNoTopology == last.op = "update, stop" => last.stop.kind # "leaf"

\* C25: whatever the earlier updates were, update(viewport) on the
\* persistent tree returns the same sequence of (depth, path, box) as
\* update(viewport) on a freshly constructed tree with the same root box
\* and LOD configuration.
C25_SameAsOnFreshTree ==
    (last.op \in UpdateOps /\ ReadsNoTopology) =>
        Handles(nodes, last.ret) =
            Handles(OnFreshTree.nodes, OnFreshTree.visited)

\* a query with the default predicate that found the root subdivided,
\* returned cells of depth 2 and left a cell of depth 1 out
C25_Witness ==
    /\ last.op = "update"
    /\ ~last.root_was_leaf
    /\ \E i \in 1..Len(last.ret) : Len(last.ret[i]) = 2
    /\ \E q \in 0..3 : <<q>> \in Reach(nodes, <<>>) /\ <<q>> \notin Visited

\* C26: a second update(viewport) straight after the first, with the
\* default stop predicate, creates and discards no node, returns the same
\* nodes in the same order, and leaves every node's cached stars in place.
C26_RepeatChangesNothing ==
    [][UpdateAgain => (nodes' = nodes /\ last'.ret = last.ret)]_vars

\* a repeated query on a subdivided tree one of whose nodes holds stars
C26_Witness ==
    /\ last.op = "update again"
    /\ Len(last.ret) >= 5
    /\ \E p \in Reach(nodes, <<>>) : p # <<>> /\ nodes[p].stars # None

----------------------------------------------------------------------------
(* A query run step by step *)

\* the depths a call in flight has reached: of the nodes of its frames, of
\* the nodes in its list, and of its recursion
DepthWithinCeiling(wk) ==
    LET c == calls[wk]
    IN  /\ Len(c.stack) <= c.max_depth + 1
        /\ \A k \in 1..Len(c.stack) : heap[c.stack[k].self].depth <= c.max_depth
        /\ \A i \in 1..Len(lists[c.out]) :
                heap[lists[c.out][i]].depth <= c.max_depth
        /\ c.status = "returned" =>
                \A n \in Reach(heap, RootId) : heap[n].depth <= tree.max_depth

\* C22: for every viewport and every stop predicate, one that never returns
\* true included, the query terminates, and no node that it visits or
\* leaves reachable from the root is deeper than the tree's max_depth.
C22_TerminatesWithinMaxDepth ==
    /\ [](calls[1].status # "idle" => DepthWithinCeiling(1))
    /\ (calls[1].status = "running") ~> (calls[1].status = "returned")

\* a query with the predicate that never stops has returned, having gone
\* down to max_depth and nowhere deeper
C22_Witness ==
    /\ calls[1].status = "returned"
    /\ calls[1].stop.kind = "never"
    /\ \E i \in 1..Len(lists[1]) :
            heap[lists[1][i]].depth = tree.max_depth
    /\ \E n \in Reach(heap, RootId) : heap[n].depth = tree.max_depth

----------------------------------------------------------------------------
(* Two queries at once *)

\* what update(vp) returns on a tree that no other call touches
Alone(vp) ==
    LET r == update(tree, (<<>> :> QuadNode(heap[RootId].rect, 0, <<>>)), vp)
    IN  Handles(r.nodes, r.visited)

\* C24: two update() queries at once on one tree are unsafe: one query can
\* collapse a node after the other has passed its subdivide check and
\* before or while it iterates the node's children, and then a query fails
\* or returns nodes other than those it returns alone.  A query fails, or
\* returns other than the tree's own nodes in the order it finds alone,
\* only if the two queries overlap.
C24_UnsafeOnlyWhenOverlapped ==
    [][\A wk \in {1, 2} :
          ~calls[wk].overlapped =>
              /\ calls'[wk].status # "failed"
              /\ Return(wk) =>
                    /\ Handles(heap', lists'[wk]) = Alone(calls[wk].vp)
                    /\ \A i \in 1..Len(lists'[wk]) :
                            lists'[wk][i] \in Reach(heap', RootId)]_vars

\* a query that had found the node's children in place has failed on
\* `for child in self.children`, the other query having set them to None
C24_Witness ==
    \E wk \in {1, 2} :
        /\ calls[wk].status = "failed"
        /\ calls[wk].exc = "TypeError"
        /\ Top(wk).pc = "iterate"
        /\ heap[Top(wk).self].children = None
        /\ calls[3 - wk].status \in {"running", "returned"}
        /\ calls[wk].overlapped

----------------------------------------------------------------------------
(* Sibling traversals run by separate workers *)

\* the tree, its objects named by position again
FromHeap ==
    LET live == Reach(heap, RootId)
    IN  [p \in {heap[n].path : n \in live} |->
            LET n    == CHOOSE m \in live : heap[m].path = p
                kids == heap[n].children
            IN  [heap[n] EXCEPT
                    !.children = [i \in 1..Len(kids) |-> heap[kids[i]].path]]]

\* the root's for loop run as the code runs it, one child after the other
Sequential ==
    traverse_children([nodes |-> nodes, visited |-> <<<<>>>>],
                      nodes[<<>>].children, 1, calls[1].vp, calls[1].stop,
                      calls[1].max_depth)

\* a worker's frames stand on nodes of the subtree it was started on; a
\* step reads and writes the fields of its innermost frame's node only
InOwnSubtree(wk) ==
    \A k \in 1..Len(calls[wk].stack) :
        LET f == calls[wk].stack[k]
        IN  /\ IsPrefix(heap[calls[wk].start].path, heap[f.self].path)
            /\ \A i \in 1..Len(f.kids) :
                    IsPrefix(heap[calls[wk].start].path, heap[f.kids[i]].path)

\* C23: a traversal started at a node reads and writes the children of the
\* nodes of that node's subtree only; so when the four sibling traversals
\* of a descending node are run by separate workers, in any interleaving,
\* the tree they leave and the set of visited nodes are those of the
\* sequential traversal.
C23_SiblingsIndependent ==
    /\ \A wk \in 1..4 : InOwnSubtree(wk)
    /\ (\A wk \in 1..4 : calls[wk].status = "returned") =>
            /\ FromHeap = Sequential.nodes
            /\ {heap[lists[0][i]].path : i \in 1..Len(lists[0])} =
                    {Sequential.visited[i] : i \in 1..Len(Sequential.visited)}
            /\ Len(lists[0]) = Len(Sequential.visited)
    /\ \A wk \in 1..4 : calls[wk].status # "failed"

\* the four workers have returned, two of them from subtrees that they
\* subdivided or collapsed, and their appends came in an order that the
\* sequential traversal does not produce
C23_Witness ==
    /\ \A wk \in 1..4 : calls[wk].status = "returned"
    /\ [i \in 1..Len(lists[0]) |-> heap[lists[0][i]].path] # Sequential.visited
    /\ FromHeap # nodes
    /\ \E n \in Reach(heap, RootId) : heap[n].depth = 2

----------------------------------------------------------------------------
(* The draws of one star *)

\* C27: for every star index i of a node the x-coordinate, the
\* y-coordinate and the brightness come from three u01 draws with pairwise
\* distinct (seed, tag) inputs, so that a star's brightness is never the
\* draw of one of its own coordinates.
C27_ThreeDistinctDraws ==
    last.op = "generate_stars" =>
        \A k \in 1..Len(last.ret) :
            LET i == k - 1
            IN  /\ XTag(i) # YTag(i)
                /\ BrightnessTag(i) # XTag(i)
                /\ BrightnessTag(i) # YTag(i)

----------------------------------------------------------------------------
(* The structure of splitmix64 *)

\* a value in [0, 2^64)
IsWord(v) == Len(v) = 8 /\ \A i \in 1..8 : v[i] \in 0..255

Odd(v) == v[1] % 2 = 1

\* xor with a right-shifted copy, then a multiplication modulo 2^64
Round(z, s, m) == Mul64(XorShift(z, s), m)

\* the odd constants of myrand.py, and 1
OddConstants == {SplitMixGamma, SplitMixMul1, SplitMixMul2, TagMul, Word(1)}

\* splitmix64(0), from the public reference implementation
MixOfZero == <<175, 205, 29, 123, 57, 168, 32, 226>>   \* 0xE220A8397B1DCDAF

\* C28 as stated: splitmix64 is exactly three rounds, each an xor with a
\* right-shifted copy followed by a multiplication by a fixed odd constant
\* modulo 2^64, and nothing else; every value lies in [0, 2^64).
C28_ThreeMultiplyRounds ==
    last.op = "splitmix64" =>
        /\ \E m1, m2, m3 \in OddConstants :
                last.ret = Round(Round(Round(last.x, 30, m1), 27, m2), 31, m3)
        /\ \A i \in 1..Len(last.values) : IsWord(last.values[i])

\* C28, amended: splitmix64 adds a fixed odd constant modulo 2^64, then
\* does three xor-shifts, the first two each followed by a multiplication
\* by a fixed odd constant modulo 2^64 and the third by none; every value
\* assigned and the result lie in [0, 2^64).
C28_AddThenThreeXorShifts ==
    last.op = "splitmix64" =>
        LET v == last.values
        IN  /\ v[1] = Add64(last.x, SplitMixGamma)
            /\ v[2] = Round(v[1], 30, SplitMixMul1)
            /\ v[3] = Round(v[2], 27, SplitMixMul2)
            /\ v[4] = XorShift(v[3], 31)
            /\ last.ret = v[4]
            /\ Odd(SplitMixGamma) /\ Odd(SplitMixMul1) /\ Odd(SplitMixMul2)
            /\ \A i \in 1..Len(v) : IsWord(v[i])
            /\ last.x = Word(0) => last.ret = MixOfZero

\* splitmix64(2^64 - 1): the addition wraps around
C28_Witness ==
    /\ last.op = "splitmix64"
    /\ last.x = AllOnes
    /\ Less64(last.values[1], last.x)
    /\ last.ret # last.values[3]

----------------------------------------------------------------------------
(* Grid positions and Morton codes *)

RECURSIVE Base4(_)
Base4(path) ==
    IF path = <<>> THEN 0 ELSE 4 * Base4(Front(path)) + path[Len(path)]

\* bit k of a natural
BitOf(v, k) == (v \div Pow2(k)) % 2

\* C30: morton_code has bit i of the grid x at place 2i and bit i of the
\* grid y at place 2i + 1 and no bit at place 2 depth or above; it is the
\* path read in base 4, so 0 <= code < 4^depth, child i of a node has code
\* 4 * parent code + i, and two nodes of one depth never share a code.
C30_MortonCodeIsPathInBase4 ==
    \A p \in Reach(nodes, <<>>) :
        LET n    == nodes[p]
            xy   == node_position(n)
            code == morton_code(n)
        IN  /\ \A i \in 0..(n.depth - 1) :
                    /\ BitOf(code, 2 * i) = BitOf(xy[1], i)
                    /\ BitOf(code, 2 * i + 1) = BitOf(xy[2], i)
            /\ code = Base4(n.path)
            /\ 0 <= code /\ code < Pow2(2 * n.depth)
            /\ \A i \in 1..Len(n.children) :
                    morton_code(nodes[n.children[i]]) = 4 * code + (i - 1)
            /\ \A q \in Reach(nodes, <<>>) :
                    (q # p /\ nodes[q].depth = n.depth) =>
                        morton_code(nodes[q]) # code

\* a tree with all its cells of depth 2 and a subdivided cell of depth 2
\* whose code is neither its grid x nor its grid y, with the four codes
\* of its children
C30_Witness ==
    /\ \A c \in PathsOfLen(2) : c \in Reach(nodes, <<>>)
    /\ \E p \in Reach(nodes, <<>>) :
            /\ nodes[p].depth = 2
            /\ ~is_leaf(nodes[p])
            /\ morton_code(nodes[p]) = 6
            /\ node_position(nodes[p]) = <<2, 1>>
            /\ {morton_code(nodes[nodes[p].children[i]]) : i \in 1..4}
                    = 24..27


============================================================================
